---- MODULE Spec2Model ----
(***************************************************************************)
(* State-machine model of the stats pipeline and the download worker pool  *)
(* of recall-loader:                                                        *)
(*   src/src/stats/ops.rs         Operation, OperationType                  *)
(*   src/src/stats/aggregator.rs  Aggregator, AggregatedOperation           *)
(*   src/src/stats/collector.rs   Collector (channel + consumer task)       *)
(*   src/src/commands/downloader.rs  Downloader (channel + C workers)       *)
(*   src/src/commands/runner.rs   TestRunner::upload_test and its poller    *)
(*   src/src/commands/mod.rs      run(), the scheduler of the TestRunners   *)
(*                                                                          *)
(* Times are integers in nanoseconds (chrono's resolution).  Durations are  *)
(* differences of times.  In the pool the wall clock advances one Tick per  *)
(* dequeued key and a get_object call takes one Tick (Ok) or two (Err).     *)
(* The unwrap() panics of download_blob (temp file, Bucket::attach) and of  *)
(* a poisoned lock are outside the model, as are those of the runner's own  *)
(* download_blob (temp file, read_exact).  The runner's measured durations  *)
(* are kept as Some / None, and the 2 s sleep between polls is not timed.   *)
(***************************************************************************)
EXTENDS Integers, Sequences, FiniteSets, TLC

(***************************************************************************)
(* Bounds of the model.                                                     *)
(***************************************************************************)
\* largest concurrency a Downloader is built with
MaxWorkers == 2
\* number of keys the client submits over all download() calls
MaxKeys == 2
\* capacities of the Downloader's and the Collector's mpsc channel (the
\* program uses 100 for both, downloader.rs:27 and collector.rs:25; scaled so
\* that a full channel occurs)
DownloaderCap == 1
CollectorCap == 2
\* nanoseconds between two dequeues of a key, and the latency unit of a
\* get_object call
Tick == 700000
\* number of records inserted directly into an Aggregator (SpecAgg)
MaxRecs == 3
\* the largest blob_count of a TestRunner
MaxBlobs == 2
\* the most failed polls after which a polled object still resolves
MaxWaits == 1
\* the most queries list_bucket_items issues before the service returns a
\* page without next key, and the most objects of a page
MaxPages == 3
MaxPageKeys == 2
\* the most TestRunners a configuration lists
MaxTests == 3
\* capacity of run()'s result channel (the program uses 100, mod.rs:132;
\* scaled so that more runs than the channel holds occur)
ResultsCap == 2

(***************************************************************************)
(* Program constants.                                                       *)
(***************************************************************************)
\* Duration::seconds(1).num_nanoseconds()
OneSecond == 1000000000
\* DateTime::<Utc>::MAX_UTC / MIN_UTC and Duration::MAX / MIN, the seeds of a
\* new AggregatedOperation: beyond every time and duration of the model
MAX_UTC == 1000000000
MIN_UTC == -1000000000
DurationMAX == 1000000000
DurationMIN == -1000000000
\* i64::MAX, the largest count num_nanoseconds() returns, on the scale of the
\* seeds: below Duration::MAX and the distance between the seeds, above
\* every duration a record of the model has
NanosecondsMAX == 999999999
\* wait_retries of upload_test under BroadcastMode::Commit and otherwise
WaitRetriesCommit == 10
WaitRetriesOther == 100

(***************************************************************************)
(* Operation records (ops.rs).                                              *)
(***************************************************************************)
OperationType == {"Get", "Put", "List", "Delete"}

\* the kinds the direct-insert specifications draw from
Kinds == {"Get", "Put"}
ThreadIds == {"t-0", "t-1"}
\* the keys the client submits, in this order
KeyNames == <<"foo/0", "foo/1", "foo/2", "foo/3">>
\* "" is success, anything else a failure
Errors == {"", "timeout"}
\* (start, end, size) of the records inserted directly: nanosecond
\* timestamps off the millisecond grid
Shapes == {<<0, 400000, 0>>, <<300000, 2000000, 30>>}
\* blob_size handed to Downloader::new
BlobSize == 10

Operation(id, start, end, op_type, size, file, error) ==
  [id |-> id, start |-> start, end |-> end, op_type |-> op_type,
   size |-> size, file |-> file, error |-> error]

\* Operation::duration
OpDuration(op) == op.end - op.start

\* the records handed to Aggregator::insert by SpecAgg
Records ==
  { Operation(id, sh[1], sh[2], k, sh[3], "foo/0", e) :
      id \in ThreadIds, sh \in Shapes, k \in Kinds, e \in Errors }

\* the same on the millisecond grid
ShapesMs == {<<0, 1000000, 0>>, <<1000000, 3000000, 30>>}

RecordsMs ==
  { Operation(id, sh[1], sh[2], k, sh[3], "foo/0", e) :
      id \in ThreadIds, sh \in ShapesMs, k \in Kinds, e \in Errors }

Min(a, b) == IF a <= b THEN a ELSE b
Max(a, b) == IF a >= b THEN a ELSE b

(***************************************************************************)
(* Aggregator (aggregator.rs).  An Aggregator is a function from the kinds  *)
(* seen so far to their AggregatedOperation.                                *)
(***************************************************************************)
\* the value or_insert() puts in the map for a kind seen for the first time
NewAggregatedOperation ==
  [start_time |-> MAX_UTC, end_time |-> MIN_UTC,
   min_duration |-> DurationMAX, max_duration |-> DurationMIN,
   errors |-> 0, n |-> 0, total_duration |-> 0, total_bytes |-> 0,
   threads |-> {}]

\* AggregatedOperation::insert without the early return of a failed record
AggregatedInsertNoEarlyReturn(a, op) ==
  [a EXCEPT
     !.n = a.n + 1,
     !.errors = IF op.error # "" THEN a.errors + 1 ELSE a.errors,
     !.total_bytes = a.total_bytes + op.size,
     !.total_duration = a.total_duration + OpDuration(op),
     !.threads = a.threads \cup {op.id},
     !.start_time = Min(a.start_time, op.start),
     !.end_time = Max(a.end_time, op.end),
     !.min_duration = Min(a.min_duration, OpDuration(op)),
     !.max_duration = Max(a.max_duration, OpDuration(op))]

\* AggregatedOperation::insert that overwrites min_duration with the newest
\* duration instead of taking cmp::min
AggregatedInsertLastMin(a, op) ==
  LET counted == [a EXCEPT !.n = a.n + 1] IN
  IF op.error # ""
    THEN [counted EXCEPT !.errors = a.errors + 1]
    ELSE [counted EXCEPT
            !.total_bytes = a.total_bytes + op.size,
            !.total_duration = a.total_duration + OpDuration(op),
            !.threads = a.threads \cup {op.id},
            !.start_time = Min(a.start_time, op.start),
            !.end_time = Max(a.end_time, op.end),
            !.min_duration = OpDuration(op),
            !.max_duration = Max(a.max_duration, OpDuration(op))]

\* AggregatedOperation::insert that overwrites end_time with the newest end
\* instead of taking cmp::max
AggregatedInsertLastEnd(a, op) ==
  LET counted == [a EXCEPT !.n = a.n + 1] IN
  IF op.error # ""
    THEN [counted EXCEPT !.errors = a.errors + 1]
    ELSE [counted EXCEPT
            !.total_bytes = a.total_bytes + op.size,
            !.total_duration = a.total_duration + OpDuration(op),
            !.threads = a.threads \cup {op.id},
            !.start_time = Min(a.start_time, op.start),
            !.end_time = op.end,
            !.min_duration = Min(a.min_duration, OpDuration(op)),
            !.max_duration = Max(a.max_duration, OpDuration(op))]

\* AggregatedOperation::insert
AggregatedInsert(a, op) ==
  LET counted == [a EXCEPT !.n = a.n + 1] IN
  IF op.error # ""
    THEN [counted EXCEPT !.errors = a.errors + 1]
    ELSE [counted EXCEPT
            !.total_bytes = a.total_bytes + op.size,
            !.total_duration = a.total_duration + OpDuration(op),
            !.threads = a.threads \cup {op.id},
            !.start_time = Min(a.start_time, op.start),
            !.end_time = Max(a.end_time, op.end),
            !.min_duration = Min(a.min_duration, OpDuration(op)),
            !.max_duration = Max(a.max_duration, OpDuration(op))]

\* Aggregator::new
AggregatorNew == [k \in {} |-> NewAggregatedOperation]

\* an Aggregator::insert that passes the operation to the entry of every kind
AggregatorInsertEveryKind(agg, op) ==
  LET entry == IF op.op_type \in DOMAIN agg
                 THEN agg[op.op_type] ELSE NewAggregatedOperation
  IN [k \in DOMAIN agg \cup {op.op_type} |->
        IF k = op.op_type THEN AggregatedInsert(entry, op)
                          ELSE AggregatedInsert(agg[k], op)]

\* Aggregator::insert: entry(op_type).or_insert(seed).insert(operation)
AggregatorInsert(agg, op) ==
  LET entry == IF op.op_type \in DOMAIN agg
                 THEN agg[op.op_type] ELSE NewAggregatedOperation
  IN [k \in DOMAIN agg \cup {op.op_type} |->
        IF k = op.op_type THEN AggregatedInsert(entry, op) ELSE agg[k]]

\* AggregatedOperation::concurrency
Concurrency(a) == Cardinality(a.threads)

\* f64::round of the quotient num / den (den > 0): nearest integer, halves
\* away from zero
RoundDiv(num, den) ==
  IF num >= 0 THEN (2 * num + den) \div (2 * den)
              ELSE -((2 * (-num) + den) \div (2 * den))

\* AggregatedOperation::avg_duration, in nanoseconds:
\*   Duration::milliseconds(round(d / (n * one_second) * 1000.0))
\* The quotient d * 1000 / (n * one_second) is taken as d / (n * one_second
\* / 1000), the same real number, to stay within the checker's integers.
\* n = 0 cannot occur: an AggregatedOperation in the map has n >= 1.
AvgDuration(a) ==
  RoundDiv(a.total_duration, a.n * (OneSecond \div 1000)) * (OneSecond \div 1000)

\* AggregatedOperation::duration: end_time.signed_duration_since(start_time)
Duration(a) == a.end_time - a.start_time

\* Duration::num_nanoseconds() is None when the count of nanoseconds leaves
\* i64.  Duration::MAX, Duration::MIN and the span between the seeds
\* MAX_UTC and MIN_UTC are such durations; the durations of records are not.
NumNanosecondsIsNone(d) == d > NanosecondsMAX \/ d < -NanosecondsMAX

\* An f64 result num * one_second / den, kept as the pair (num, den): the
\* product num * one_second is beyond the checker's integers.  den = 0 is
\* the f64 division by zero (inf, NaN); panic marks a call that unwinds.
F64Quotient(num, den) == [panic |-> FALSE, num |-> num, den |-> den]
F64Zero == F64Quotient(0, 1)
Panicked == [panic |-> TRUE, num |-> 0, den |-> 0]

\* equality of two f64 results as real numbers
F64Eq(x, y) ==
  /\ ~x.panic /\ ~y.panic
  /\ x.den # 0 /\ y.den # 0
  /\ x.num * y.den = y.num * x.den

\* AggregatedOperation::avg_throughput with the span replaced by the sum of
\* the single durations
AvgThroughputOverTotalDuration(a) ==
  IF a.total_bytes = 0 THEN F64Zero
  ELSE IF NumNanosecondsIsNone(a.total_duration) THEN Panicked
  ELSE F64Quotient(a.total_bytes, a.total_duration)

\* AggregatedOperation::avg_throughput:
\*   total_bytes as f64 * one_second / duration().num_nanoseconds().unwrap()
AvgThroughput(a) ==
  IF a.total_bytes = 0 THEN F64Zero
  ELSE IF NumNanosecondsIsNone(Duration(a)) THEN Panicked
  ELSE F64Quotient(a.total_bytes, Duration(a))

\* AggregatedOperation::objects_per_sec:
\*   n as f64 * one_second / duration().num_nanoseconds().unwrap()
ObjectsPerSec(a) ==
  IF NumNanosecondsIsNone(Duration(a)) THEN Panicked
  ELSE F64Quotient(a.n, Duration(a))

\* Aggregator::display unwinds when a call it makes for some kind does;
\* HumanDuration reads num_nanoseconds().unwrap_or(0) and cannot
DisplayPanics(agg) ==
  \E k \in DOMAIN agg :
    \/ AvgThroughput(agg[k]).panic
    \/ ObjectsPerSec(agg[k]).panic
    \/ NumNanosecondsIsNone(agg[k].total_duration)

(***************************************************************************)
(* State.                                                                   *)
(***************************************************************************)
VARIABLES
  \* Collector (collector.rs)
  collector_sender,  \* Collector.sender is Some
  collector_chan,    \* the records buffered in the Collector's mpsc channel
  collector_task,    \* position of the consumer task: "recv", "insert", "done"
  collector_handle,  \* Collector.background_task is Some
  ops,               \* Collector.ops, the record list
  aggregator,        \* Collector.aggregator (or the Aggregator under test)
  \* Downloader (downloader.rs)
  concurrency,       \* worker count of the Downloader; 0 before Downloader::new
  downloader_sender, \* Downloader.sender is Some
  downloader_chan,   \* the keys buffered in the Downloader's mpsc channel
  rx_guard,          \* the worker holding the receiver's mutex, 0 when free
  worker_pc,         \* position of each worker task
  worker_op,         \* the Operation a worker is building in download_blob
  background_tasks,  \* Downloader.background_tasks[i] is Some
  \* environment
  executing,         \* number of get_object calls in flight at the target
  now,               \* the wall clock Utc::now() reads when a key is dequeued
  \* the client task that owns the Collector and the Downloader
  client_pc,         \* "idle", "download", "downloader_close", "collector_close"
  client_keys,       \* keys download() has still to send
  client_join,       \* index of the task Downloader::close is awaiting
  \* history
  aggLog,            \* the records passed to Aggregator::insert, in order
  sent,              \* the records whose collect() returned Ok, in channel order
  accepted,          \* the keys download() enqueued, in channel order
  finished,          \* per worker, the download_blob calls that returned
  downloader_closed, \* Downloader::close has returned
  collector_closed,  \* Collector::close has returned
  \* TestRunner (runner.rs)
  runner_pc,         \* position of upload_test: "new", "setup", "upload",
                     \* "init_sequence", "poll", "download", "delete", "done"
  test,              \* TestRunner.test, the configuration of the run
  upload_i,          \* the index i of the upload loop
  results,           \* the map results: key -> Timing
  tx_results,        \* the vector tx_results: (key, tx status)
  wallet_sequence,   \* the sequence number the wallet holds
  chain_sequence,    \* the sequence number the chain expects of the wallet
  to_try,            \* loop_until_blob_found: the keys to poll
  try_i,             \* loop_until_blob_found: index of the key being polled
  retries,           \* loop_until_blob_found: the shared retry budget
  poll_wait,         \* the failed polls before the object of the key being
                     \* polled resolves, Never if it does not
  key_fails,         \* failed polls of the key being polled
  iter_order,        \* the order in which results.iter_mut() yields the keys
  remaining,         \* keys the running loop over results has still to visit
  run_result,        \* what upload_test returned, "running" before
  calls,             \* history: the network calls issued, in order
  \* run() (commands/mod.rs)
  sched_pc,          \* position of run(): "new", "join_all", "recv", "done",
                     \* "err"
  task_pc,           \* position of each spawned task: "none", "execute",
                     \* "send", "sent", "failed"
  results_chan,      \* the (i, res) buffered in run()'s mpsc channel, as i
  displayed,         \* history: the i whose res.display_stats() was called
  \* Display of Throughput (ops.rs) and HumanDuration (aggregator.rs)
  thr_in,            \* the Throughput last formatted
  thr_out,           \* what its Display wrote
  dur_in,            \* the HumanDuration last formatted
  dur_out,           \* what its Display wrote
  \* list_bucket_items (commands/mod.rs)
  list_pc,           \* position: "new", "query", "ok", "err"
  list,              \* the page the last query returned
  list_results,      \* the vector results
  query_durations,   \* the vector query_durations
  pages              \* history: the pages the service returned, in order

collector_vars ==
  <<collector_sender, collector_chan, collector_task, collector_handle, ops,
    aggregator, aggLog, sent, collector_closed>>

downloader_vars ==
  <<concurrency, downloader_sender, downloader_chan, rx_guard, worker_pc,
    worker_op, background_tasks, executing, now, accepted, finished,
    downloader_closed>>

client_vars == <<client_pc, client_keys, client_join>>

runner_vars ==
  <<runner_pc, test, upload_i, results, tx_results, wallet_sequence,
    chain_sequence, to_try, try_i, retries, poll_wait, key_fails, iter_order,
    remaining, run_result, calls>>

scheduler_vars == <<sched_pc, task_pc, results_chan, displayed>>

display_vars == <<thr_in, thr_out, dur_in, dur_out>>

list_vars == <<list_pc, list, list_results, query_durations, pages>>

vars ==
  <<collector_vars, downloader_vars, client_vars, runner_vars, scheduler_vars,
    display_vars, list_vars>>

Tasks == 1..MaxTests

Workers == 1..MaxWorkers

\* format!("{}-{}", thread_id, i) for worker i + 1
ThreadNames == <<"t-0", "t-1", "t-2", "t-3">>
ThreadId(w) == ThreadNames[w]

NoOperation == Operation("", 0, 0, "Get", 0, "", "")

\* a TestRunner not yet generated, and the empty HashMap
NoTest ==
  [blob_count |-> 0, download |-> FALSE, delete |-> FALSE,
   broadcast_mode |-> "Commit"]
NoResults == [k \in {} |-> 0]

\* nothing formatted yet, and no page queried yet
NoThroughput == [hi |-> 0, q |-> 0]
NoDuration == [secs |-> 0, nanos |-> 0]
NoOutput == [form |-> "none"]
NoPage == [start_key |-> 0, objects |-> <<>>, next_key |-> 0]

\* the state after Collector::new; no Downloader has been built
Init ==
  /\ collector_sender = TRUE
  /\ collector_chan = <<>>
  /\ collector_task = "recv"
  /\ collector_handle = TRUE
  /\ ops = <<>>
  /\ aggregator = AggregatorNew
  /\ concurrency = 0
  /\ downloader_sender = FALSE
  /\ downloader_chan = <<>>
  /\ rx_guard = 0
  /\ worker_pc = [w \in Workers |-> "none"]
  /\ worker_op = [w \in Workers |-> NoOperation]
  /\ background_tasks = [w \in Workers |-> FALSE]
  /\ executing = 0
  /\ now = 0
  /\ client_pc = "idle"
  /\ client_keys = <<>>
  /\ client_join = 0
  /\ aggLog = <<>>
  /\ sent = <<>>
  /\ accepted = <<>>
  /\ finished = [w \in Workers |-> <<>>]
  /\ downloader_closed = FALSE
  /\ collector_closed = FALSE
  /\ runner_pc = "new"
  /\ test = NoTest
  /\ upload_i = 0
  /\ results = NoResults
  /\ tx_results = <<>>
  /\ wallet_sequence = 0
  /\ chain_sequence = 0
  /\ to_try = <<>>
  /\ try_i = 0
  /\ retries = 0
  /\ poll_wait = 0
  /\ key_fails = 0
  /\ iter_order = <<>>
  /\ remaining = <<>>
  /\ run_result = "running"
  /\ calls = <<>>
  /\ sched_pc = "new"
  /\ task_pc = [t \in Tasks |-> "none"]
  /\ results_chan = <<>>
  /\ displayed = <<>>
  /\ thr_in = NoThroughput
  /\ thr_out = NoOutput
  /\ dur_in = NoDuration
  /\ dur_out = NoOutput
  /\ list_pc = "new"
  /\ list = NoPage
  /\ list_results = <<>>
  /\ query_durations = <<>>
  /\ pages = <<>>

(***************************************************************************)
(* Collector: the consumer task spawned by Collector::new.                  *)
(***************************************************************************)
\* a receiver that yields the newest buffered record
ReceivedNewest(chan) == chan[Len(chan)]

\* the record receiver.recv() yields from the buffered records: the oldest
Received(chan) == Head(chan)
Remaining(chan) == Tail(chan)

\* receiver.recv().await, then ops_guard.push(op.clone()); recv() yields None
\* once the sender is dropped and the buffer is empty, which ends the task
ConsumerRecv ==
  /\ collector_task = "recv"
  /\ IF collector_chan # <<>>
       THEN /\ ops' = Append(ops, Received(collector_chan))
            /\ collector_chan' = Remaining(collector_chan)
            /\ collector_task' = "insert"
       ELSE /\ ~collector_sender
            /\ collector_task' = "done"
            /\ UNCHANGED <<ops, collector_chan>>
  /\ UNCHANGED <<runner_vars, scheduler_vars, display_vars, list_vars>>
  /\ UNCHANGED <<collector_sender, collector_handle, aggregator, aggLog, sent,
                 collector_closed, downloader_vars, client_vars>>

\* aggregator_guard.insert(op), with the ops lock still held
ConsumerInsert ==
  /\ collector_task = "insert"
  /\ aggregator' = AggregatorInsert(aggregator, ops[Len(ops)])
  /\ aggLog' = Append(aggLog, ops[Len(ops)])
  /\ collector_task' = "recv"
  /\ UNCHANGED <<runner_vars, scheduler_vars, display_vars, list_vars>>
  /\ UNCHANGED <<collector_sender, collector_chan, collector_handle, ops, sent,
                 collector_closed, downloader_vars, client_vars>>

\* Collector::get_operations: a copy of ops, taken under the ops lock, which
\* the consumer holds from its push to the end of the iteration
GetOperationsEnabled == collector_task # "insert"
GetOperations == ops

(***************************************************************************)
(* Downloader: construction and the worker loop.                            *)
(***************************************************************************)
\* Downloader::new(target, collector, thread_id, bucket, c, blob_size)
DownloaderNew(c) ==
  /\ client_pc = "idle"
  /\ concurrency = 0
  /\ concurrency' = c
  /\ downloader_sender' = TRUE
  /\ worker_pc' = [w \in Workers |-> IF w <= c THEN "lock" ELSE "none"]
  /\ background_tasks' = [w \in Workers |-> w <= c]
  /\ UNCHANGED <<runner_vars, scheduler_vars, display_vars, list_vars>>
  /\ UNCHANGED <<downloader_chan, rx_guard, worker_op, executing, now,
                 accepted, finished, downloader_closed, collector_vars,
                 client_vars>>

\* rx_clone.lock().await
WorkerLock(w) ==
  /\ worker_pc[w] = "lock"
  /\ rx_guard = 0
  /\ rx_guard' = w
  /\ worker_pc' = [worker_pc EXCEPT ![w] = "recv"]
  /\ UNCHANGED <<runner_vars, scheduler_vars, display_vars, list_vars>>
  /\ UNCHANGED <<concurrency, downloader_sender, downloader_chan, worker_op,
                 background_tasks, executing, now, accepted, finished,
                 downloader_closed, collector_vars, client_vars>>

\* a worker that spawns the get and goes back to the queue at once
AfterDequeueDetached(w) == [worker_pc EXCEPT ![w] = "lock"]

\* the worker's position after it took a key: it executes the get itself
AfterDequeue(w) == [worker_pc EXCEPT ![w] = "get"]

\* a recv() that yields None whenever the buffer is empty (try_recv)
RecvClosedWhenEmpty == TRUE

\* recv() yields None on an empty buffer only once the sender is dropped
RecvClosed == ~downloader_sender

\* a recv() that hands out the oldest key and leaves it in the buffer
AfterRecvPeek(chan) == chan

\* the buffer after recv() handed out its oldest key
AfterRecv(chan) == Tail(chan)

\* a worker that keeps the guard of the receiver while it executes the get
GuardKeptDuringGet(w, took) == IF took THEN w ELSE 0

\* the holder of the receiver's lock after recv() returned: with a key,
\* drop(rx_guard) comes before download_blob; with None the guard goes out
\* of scope at the break
GuardAfterRecv(w, took) == 0

\* rx_guard.recv().await: with a key, drop the guard and enter download_blob
\* up to the call of target.get_object; with None (sender dropped, buffer
\* empty) leave the loop
WorkerRecv(w) ==
  /\ worker_pc[w] = "recv"
  /\ IF downloader_chan # <<>>
       THEN /\ downloader_chan' = AfterRecv(downloader_chan)
            /\ worker_op' = [worker_op EXCEPT ![w] =
                 Operation(ThreadId(w), now, 0, "Get", BlobSize,
                           Head(downloader_chan), "")]
            /\ executing' = executing + 1
            /\ now' = now + Tick
            /\ worker_pc' = AfterDequeue(w)
       ELSE /\ RecvClosed
            /\ worker_pc' = [worker_pc EXCEPT ![w] = "done"]
            /\ UNCHANGED <<downloader_chan, worker_op, executing, now>>
  /\ rx_guard' = GuardAfterRecv(w, downloader_chan # <<>>)
  /\ UNCHANGED <<runner_vars, scheduler_vars, display_vars, list_vars>>
  /\ UNCHANGED <<concurrency, downloader_sender, background_tasks,
                 accepted, finished, downloader_closed, collector_vars,
                 client_vars>>

\* the time a get_object call takes: a failure is a timeout, twice as long
Latency(ok) == IF ok THEN Tick ELSE 2 * Tick

\* target.get_object returns Ok or Err; the operation gets its end time, the
\* Utc::now() read at that moment (start plus the call's latency), and, on
\* failure, its error
WorkerGetReturns(w, ok) ==
  /\ worker_pc[w] = "get"
  /\ executing' = executing - 1
  /\ worker_op' = [worker_op EXCEPT ![w].end = worker_op[w].start + Latency(ok),
                                    ![w].error = IF ok THEN "" ELSE "timeout"]
  /\ worker_pc' = [worker_pc EXCEPT ![w] = "collect"]
  /\ UNCHANGED <<runner_vars, scheduler_vars, display_vars, list_vars>>
  /\ UNCHANGED <<concurrency, downloader_sender, downloader_chan, rx_guard,
                 background_tasks, now, accepted, finished, downloader_closed,
                 collector_vars, client_vars>>

\* a collect() that swallows the missing sender and reports Ok
OutcomeAlwaysOk(op, collected) ==
  [file |-> op.file, error |-> op.error, collect |-> "Ok"]

\* the outcome download_blob returns to the worker loop
Outcome(op, collected) ==
  [file |-> op.file, error |-> op.error, collect |-> collected]

\* a collect() that also pushes the record onto the record list itself
OpsAfterCollectPushed(op) == Append(ops, op)

\* the record list after collect(op): collect only sends on the channel
OpsAfterCollect(op) == ops

\* a worker loop that breaks when download_blob returned Err
LoopAfterBlobBreaks(w) ==
  [worker_pc EXCEPT ![w] =
     IF worker_op[w].error = "" /\ collector_sender THEN "lock" ELSE "done"]

\* the worker loop after download_blob returned: an Err is logged by error!
\* and `continue` takes the worker back to the lock in both cases
LoopAfterBlob(w) == [worker_pc EXCEPT ![w] = "lock"]

\* collector.collect(operation): without a sender it returns Err at once;
\* with a sender, sender.send(op).await completes once the channel has room.
\* download_blob then returns and the worker loops.
WorkerCollect(w) ==
  /\ worker_pc[w] = "collect"
  /\ IF collector_sender
       THEN /\ Len(collector_chan) < CollectorCap
            /\ collector_chan' = Append(collector_chan, worker_op[w])
            /\ sent' = Append(sent, worker_op[w])
            /\ finished' = [finished EXCEPT ![w] =
                 Append(@, Outcome(worker_op[w], "Ok"))]
       ELSE /\ finished' = [finished EXCEPT ![w] =
                 Append(@, Outcome(worker_op[w], "Err"))]
            /\ UNCHANGED <<collector_chan, sent>>
  /\ ops' = OpsAfterCollect(worker_op[w])
  /\ worker_op' = [worker_op EXCEPT ![w] = NoOperation]
  /\ worker_pc' = LoopAfterBlob(w)
  /\ UNCHANGED <<runner_vars, scheduler_vars, display_vars, list_vars>>
  /\ UNCHANGED <<collector_sender, collector_task, collector_handle,
                 aggregator, aggLog, collector_closed, concurrency,
                 downloader_sender, downloader_chan, rx_guard,
                 background_tasks, executing, now, accepted,
                 downloader_closed, client_vars>>

(***************************************************************************)
(* The client: download(), Downloader::close, Collector::close.             *)
(***************************************************************************)
\* the non-empty key vectors a download() call may carry: the next m keys
\* after the submitted ones
KeyVectors(n) ==
  {[i \in 1..m |-> KeyNames[Len(accepted) + i]] : m \in 1..n}

\* Downloader::download(keys) is called
Download(keys) ==
  /\ client_pc = "idle"
  /\ concurrency > 0
  /\ client_pc' = "download"
  /\ client_keys' = keys
  /\ UNCHANGED <<runner_vars, scheduler_vars, display_vars, list_vars>>
  /\ UNCHANGED <<client_join, collector_vars, downloader_vars>>

\* a send on an unbounded channel, which completes at once
SendCompletesAlways(chan) == TRUE

\* sender.send(key).await on the bounded channel completes once the buffer
\* holds fewer keys than its capacity
SendCompletes(chan) == Len(chan) < DownloaderCap

\* one iteration of download()'s loop: without a sender return Err; otherwise
\* sender.send(key).await completes once the channel has room, and the call
\* returns Ok after the last key
DownloadSend ==
  /\ client_pc = "download"
  /\ IF downloader_sender
       THEN /\ SendCompletes(downloader_chan)
            /\ downloader_chan' = Append(downloader_chan, Head(client_keys))
            /\ accepted' = Append(accepted, Head(client_keys))
            /\ client_keys' = Tail(client_keys)
            /\ client_pc' = IF Tail(client_keys) = <<>>
                              THEN "idle" ELSE "download"
       ELSE /\ client_keys' = <<>>
            /\ client_pc' = "idle"
            /\ UNCHANGED <<downloader_chan, accepted>>
  /\ UNCHANGED <<runner_vars, scheduler_vars, display_vars, list_vars>>
  /\ UNCHANGED <<client_join, concurrency, downloader_sender, rx_guard,
                 worker_pc, worker_op, background_tasks, executing, now,
                 finished, downloader_closed, collector_vars>>

\* Downloader::close is called: self.sender.take()
DownloaderClose ==
  /\ client_pc = "idle"
  /\ concurrency > 0
  /\ downloader_sender' = FALSE
  /\ client_pc' = "downloader_close"
  /\ client_join' = 1
  /\ UNCHANGED <<runner_vars, scheduler_vars, display_vars, list_vars>>
  /\ UNCHANGED <<client_keys, concurrency, downloader_chan, rx_guard,
                 worker_pc, worker_op, background_tasks, executing, now,
                 accepted, finished, downloader_closed, collector_vars>>

\* the handle Downloader::close awaits next may be joined
Joinable(w) == worker_pc[w] = "done"

\* one iteration of close()'s loop: task.take(), and task.await when it was
\* Some; close returns after the last task
DownloaderJoin ==
  /\ client_pc = "downloader_close"
  /\ background_tasks[client_join] => Joinable(client_join)
  /\ background_tasks' = [background_tasks EXCEPT ![client_join] = FALSE]
  /\ IF client_join = concurrency
       THEN /\ client_pc' = "idle"
            /\ client_join' = 0
            /\ downloader_closed' = TRUE
       ELSE /\ client_join' = client_join + 1
            /\ UNCHANGED <<client_pc, downloader_closed>>
  /\ UNCHANGED <<runner_vars, scheduler_vars, display_vars, list_vars>>
  /\ UNCHANGED <<client_keys, concurrency, downloader_sender, downloader_chan,
                 rx_guard, worker_pc, worker_op, executing, now, accepted,
                 finished, collector_vars>>

\* close(&mut self) needs the Collector exclusively: no worker task holds a
\* clone of the Arc<Collector> given to Downloader::new
CollectorUnshared == \A w \in Workers : worker_pc[w] \in {"none", "done"}

\* Collector::close is called: self.sender.take()
CollectorClose ==
  /\ client_pc = "idle"
  /\ CollectorUnshared
  /\ collector_sender' = FALSE
  /\ client_pc' = "collector_close"
  /\ UNCHANGED <<runner_vars, scheduler_vars, display_vars, list_vars>>
  /\ UNCHANGED <<client_keys, client_join, collector_chan, collector_task,
                 collector_handle, ops, aggregator, aggLog, sent,
                 collector_closed, downloader_vars>>

\* a close() that drops the sender without awaiting the consumer
ConsumerJoinableNoWait == TRUE

\* the consumer's handle may be joined
ConsumerJoinable == collector_task = "done"

\* background_task.take(), and task.await when it was Some; close returns
CollectorJoin ==
  /\ client_pc = "collector_close"
  /\ collector_handle => ConsumerJoinable
  /\ collector_handle' = FALSE
  /\ collector_closed' = TRUE
  /\ client_pc' = "idle"
  /\ UNCHANGED <<runner_vars, scheduler_vars, display_vars, list_vars>>
  /\ UNCHANGED <<client_keys, client_join, collector_sender, collector_chan,
                 collector_task, ops, aggregator, aggLog, sent,
                 downloader_vars>>

Next ==
  \/ ConsumerRecv
  \/ ConsumerInsert
  \/ \E c \in 1..MaxWorkers : DownloaderNew(c)
  \/ \E w \in Workers : WorkerLock(w)
  \/ \E w \in Workers : WorkerRecv(w)
  \/ \E w \in Workers, ok \in BOOLEAN : WorkerGetReturns(w, ok)
  \/ \E w \in Workers : WorkerCollect(w)
  \/ \E keys \in KeyVectors(MaxKeys - Len(accepted)) : Download(keys)
  \/ DownloadSend
  \/ DownloaderClose
  \/ DownloaderJoin
  \/ CollectorClose
  \/ CollectorJoin

Spec == Init /\ [][Next]_vars

\* the runtime schedules every task that can run, a get_object call returns,
\* and the client proceeds through a close() it has started
FairSpec ==
  /\ Spec
  /\ WF_vars(ConsumerRecv)
  /\ WF_vars(ConsumerInsert)
  /\ \A w \in Workers :
       /\ WF_vars(WorkerLock(w))
       /\ WF_vars(WorkerRecv(w))
       /\ WF_vars(\E ok \in BOOLEAN : WorkerGetReturns(w, ok))
       /\ WF_vars(WorkerCollect(w))
  /\ WF_vars(DownloaderJoin)
  /\ WF_vars(CollectorJoin)

(***************************************************************************)
(* SpecAgg: an Aggregator on its own, fed arbitrary records.                *)
(***************************************************************************)
\* one call of Aggregator::insert(op)
InsertRecord(op) ==
  /\ Len(aggLog) < MaxRecs
  /\ aggregator' = AggregatorInsert(aggregator, op)
  /\ aggLog' = Append(aggLog, op)
  /\ UNCHANGED <<runner_vars, scheduler_vars, display_vars, list_vars>>
  /\ UNCHANGED <<collector_sender, collector_chan, collector_task,
                 collector_handle, ops, sent, collector_closed,
                 downloader_vars, client_vars>>

NextAgg == \E op \in Records : InsertRecord(op)

SpecAgg == Init /\ [][NextAgg]_vars

\* the same, with records on the millisecond grid only
NextAggMs == \E op \in RecordsMs : InsertRecord(op)

SpecAggMs == Init /\ [][NextAggMs]_vars

(***************************************************************************)
(* Display of Throughput (ops.rs).  A Throughput holds an f64; the model    *)
(* takes the values hi * 2^20 + q / 4 with 0 <= q < 4 * 2^20, which an f64  *)
(* holds exactly and which keep every product below 2^31.  What Display     *)
(* writes is the record of the number, as an integer count of its last      *)
(* decimal place, the number of decimals, and the unit.                     *)
(***************************************************************************)
\* quarters in 2^20
QuartersPerMi == 4194304

RECURSIVE Pow2(_)
Pow2(k) == IF k = 0 THEN 1 ELSE 2 * Pow2(k - 1)

RECURSIVE Pow10(_)
Pow10(k) == IF k = 0 THEN 1 ELSE 10 * Pow10(k - 1)

\* the Throughputs formatted: around every threshold, with and without a
\* fraction
Throughputs ==
  [hi : {0}, q : {0, 1, 2000, 4092, 4095, 4096, 4097, 6144, 4194300, 4194303}]
    \cup [hi : {1, 2, 1023, 1024, 1536, 1048575, 1048576, 1572864, 2097152},
          q : {0, 1, 2097152, 4194303}]

\* a comparison that puts a value equal to the threshold below it
ThroughputLessOrEqual(t, shift) ==
  IF shift < 20 THEN t.hi = 0 /\ t.q <= 4 * Pow2(shift)
                ELSE t.hi < Pow2(shift - 20) \/ (t.hi = Pow2(shift - 20) /\ t.q = 0)

\* t < (1 << shift) as f64
ThroughputLess(t, shift) ==
  IF shift < 20 THEN t.hi = 0 /\ t.q < 4 * Pow2(shift)
                ELSE t.hi < Pow2(shift - 20)

\* n / d rounded to the nearest integer, a tie to the even one
RoundHalfEven(n, d) ==
  LET f == n \div d
      r2 == 2 * (n % d)
  IN IF r2 > d \/ (r2 = d /\ f % 2 = 1) THEN f + 1 ELSE f

\* "{:.decimals}" of t / (1 << shift) as f64: the quotient is exact in f64
\* and is written rounded to the given number of decimals
Fixed(t, shift, decimals) ==
  LET m == Pow10(decimals) IN
  IF shift < 20
    THEN RoundHalfEven(t.q * m, 4 * Pow2(shift))
    ELSE LET D == Pow2(shift - 20)
             a == (t.hi * m) \div D
             ra == (t.hi * m) % D
             g == (t.q * m) \div QuartersPerMi
             h == (t.q * m) % QuartersPerMi
             n == a + ((ra + g) \div D)
             r == (ra + g) % D
             x2 == 2 * r + (IF 2 * h >= QuartersPerMi THEN 1 ELSE 0)
             hh == (2 * h) % QuartersPerMi
         IN IF x2 > D \/ (x2 = D /\ (hh > 0 \/ n % 2 = 1)) THEN n + 1 ELSE n

Written(t, shift, decimals, unit) ==
  [form |-> "throughput", digits |-> Fixed(t, shift, decimals),
   decimals |-> decimals, unit |-> unit]

\* impl Display for Throughput
ThroughputFmt(t) ==
  IF ThroughputLess(t, 10) THEN Written(t, 0, 1, "B/s")
  ELSE IF ThroughputLess(t, 20) THEN Written(t, 10, 1, "KiB/s")
  ELSE IF ThroughputLess(t, 30) THEN Written(t, 20, 1, "MiB/s")
  ELSE IF ThroughputLess(t, 40) THEN Written(t, 30, 2, "GiB/s")
  ELSE Written(t, 40, 2, "TiB/s")

\* Throughput(t).to_string()
FormatThroughput(t) ==
  /\ thr_in' = t
  /\ thr_out' = ThroughputFmt(t)
  /\ UNCHANGED <<dur_in, dur_out>>
  /\ UNCHANGED <<collector_vars, downloader_vars, client_vars, runner_vars,
                 scheduler_vars, list_vars>>

(***************************************************************************)
(* Display of HumanDuration (aggregator.rs).  A chrono Duration is a count  *)
(* of whole seconds (rounded down) and of nanoseconds in 0 .. 10^9 - 1.     *)
(* What Display writes is the record of the form chosen and of the numbers  *)
(* written; a component the form does not write is 0.                       *)
(***************************************************************************)
\* num_nanoseconds() is None from this many seconds on: in chrono beyond
\* i64::MAX ns (9223372036 s), here scaled below 2^31
NanosecondsNoneFrom == 2000000000

\* the Durations formatted: around every threshold of the form, with and
\* without milliseconds, sub-millisecond, beyond num_nanoseconds, negative
Durations ==
  [secs : {0, 1, 59, 60, 90, 3599, 3600, 86399, 86400, 90061,
           NanosecondsNoneFrom + 90061},
   nanos : {0, 999999, 250000000, 999999999}]
    \cup {[secs |-> -1, nanos |-> 500000000], [secs |-> -2, nanos |-> 500000000],
          [secs |-> -2, nanos |-> 0]}

\* Duration::num_seconds: the whole seconds, rounded towards zero
NumSeconds(d) == IF d.secs < 0 /\ d.nanos > 0 THEN d.secs + 1 ELSE d.secs

\* self.0.num_nanoseconds().unwrap_or(0) % 1_000_000_000, the remainder
\* having the sign of the duration
SubSecNanos(d) ==
  IF d.secs >= NanosecondsNoneFrom THEN 0
  ELSE IF d.secs >= 0 \/ d.nanos = 0 THEN d.nanos
  ELSE d.nanos - OneSecond

\* ... / 1_000_000, rounded towards zero
Millis(d) ==
  LET r == SubSecNanos(d)
  IN IF r >= 0 THEN r \div 1000000 ELSE -((-r) \div 1000000)

Wrote(form, days, hours, minutes, seconds, millis) ==
  [form |-> form, days |-> days, hours |-> hours, minutes |-> minutes,
   seconds |-> seconds, millis |-> millis]

\* impl Display for HumanDuration
HumanDurationFmt(d) ==
  LET total_secs == NumSeconds(d)
      millis == Millis(d)
  IN IF total_secs = 0 THEN Wrote("{}ms", 0, 0, 0, 0, millis)
     ELSE IF total_secs < 60
       THEN IF millis > 0
              THEN Wrote("{}.{:03}s", 0, 0, 0, total_secs, millis)
              ELSE Wrote("{}s", 0, 0, 0, total_secs, 0)
     ELSE LET minutes == total_secs \div 60
              seconds == total_secs % 60
          IN IF minutes < 60
               THEN Wrote("{}m {}.{:03}s", 0, 0, minutes, seconds, millis)
             ELSE LET hours == minutes \div 60
                  IN IF hours < 24
                       THEN Wrote("{}h {}m {}.{:03}s", 0, hours, minutes % 60,
                                  seconds, millis)
                       ELSE Wrote("{}d {}h {}m {}.{:03}s", hours \div 24,
                                  hours % 24, minutes % 60, seconds, millis)

\* HumanDuration(d).to_string()
FormatDuration(d) ==
  /\ dur_in' = d
  /\ dur_out' = HumanDurationFmt(d)
  /\ UNCHANGED <<thr_in, thr_out>>
  /\ UNCHANGED <<collector_vars, downloader_vars, client_vars, runner_vars,
                 scheduler_vars, list_vars>>

NextDisplay ==
  \/ \E t \in Throughputs : FormatThroughput(t)
  \/ \E d \in Durations : FormatDuration(d)

SpecDisplay == Init /\ [][NextDisplay]_vars

(***************************************************************************)
(* list_bucket_items (commands/mod.rs).  A key of the service is a byte     *)
(* string, here its number and whether the bytes are valid UTF-8; an        *)
(* Option<key> is 0 for None and a positive number for Some.                *)
(***************************************************************************)
\* String::from_utf8_lossy(&key_bytes).to_string(): valid bytes are kept, an
\* invalid sequence is replaced by U+FFFD
FromUtf8Lossy(key_bytes) ==
  [name |-> key_bytes.bytes, replaced |-> ~key_bytes.valid]

\* the objects a page may carry: n keys not listed before
PageObjects(n) ==
  [1..n -> [bytes : {0}, valid : BOOLEAN]]

Renumbered(objects, from) ==
  [i \in 1..Len(objects) |-> [objects[i] EXCEPT !.bytes = from + i]]

\* the for loop over list.objects: results.push(key) for every object
PushKeys(results_, objects) ==
  results_ \o [i \in 1..Len(objects) |-> FromUtf8Lossy(objects[i])]

\* a loop that goes on as long as the page carried objects
ListContinuesWhileObjects(page) == page.objects # <<>>

\* while let Some(key) = list.next_key
ListContinues(page) == page.next_key # 0

\* machine.query(provider, options).await? with start_key None (first
\* query) or Some(list.next_key), then query_durations.push, the for loop
\* over the objects and the test of the while loop; an Err is returned by ?
Query(ok, objects, more) ==
  /\ list_pc \in {"new", "query"}
  /\ Len(pages) < MaxPages
  /\ more => Len(pages) + 1 < MaxPages
  /\ IF ok
       THEN LET page == [start_key |-> list.next_key,
                         objects |-> Renumbered(objects, Len(list_results)),
                         next_key |-> IF more THEN Len(pages) + 1 ELSE 0]
            IN /\ list' = page
               /\ pages' = Append(pages, page)
               /\ query_durations' = Append(query_durations, Len(pages) + 1)
               /\ list_results' = PushKeys(list_results, page.objects)
               /\ list_pc' = IF ListContinues(page) THEN "query" ELSE "ok"
       ELSE /\ list_pc' = "err"
            /\ UNCHANGED <<list, pages, query_durations, list_results>>
  /\ UNCHANGED <<collector_vars, downloader_vars, client_vars, runner_vars,
                 scheduler_vars, display_vars>>

NextList ==
  \E ok \in BOOLEAN, n \in 0..MaxPageKeys, more \in BOOLEAN :
    \E objects \in PageObjects(n) : Query(ok, objects, more)

SpecList == Init /\ [][NextList]_vars

(***************************************************************************)
(* run() (commands/mod.rs): the scheduler that spawns one task per          *)
(* TestRunner.  What a task's test.execute() does is the run modelled       *)
(* below; here it only returns Ok or Err.                                   *)
(***************************************************************************)
\* TestRunner::generate(config).await?, then channel(100), the spawn loop and
\* drop(tx); run() is then inside tasks.join_all()
RunSpawn(n, ok) ==
  /\ sched_pc = "new"
  /\ IF ok
       THEN /\ sched_pc' = "join_all"
            /\ task_pc' = [t \in Tasks |-> IF t <= n THEN "execute" ELSE "none"]
       ELSE /\ sched_pc' = "err"
            /\ UNCHANGED task_pc
  /\ UNCHANGED <<results_chan, displayed>>
  /\ UNCHANGED <<collector_vars, downloader_vars, client_vars, runner_vars,
                 display_vars, list_vars>>

\* a task's test.execute().await returns: Ok goes on to tx.send, Err is
\* logged by error! and the task ends
TaskExecute(t, ok) ==
  /\ task_pc[t] = "execute"
  /\ task_pc' = [task_pc EXCEPT ![t] = IF ok THEN "send" ELSE "failed"]
  /\ UNCHANGED <<sched_pc, results_chan, displayed>>
  /\ UNCHANGED <<collector_vars, downloader_vars, client_vars, runner_vars,
                 display_vars, list_vars>>

\* tx.send((i, res)).await completes once the channel has room; the receiver
\* lives in run(), so the send cannot fail; the task ends
TaskSend(t) ==
  /\ task_pc[t] = "send"
  /\ Len(results_chan) < ResultsCap
  /\ results_chan' = Append(results_chan, t)
  /\ task_pc' = [task_pc EXCEPT ![t] = "sent"]
  /\ UNCHANGED <<sched_pc, displayed>>
  /\ UNCHANGED <<collector_vars, downloader_vars, client_vars, runner_vars,
                 display_vars, list_vars>>

\* tasks.join_all().await returns once every spawned task has ended
JoinAll ==
  /\ sched_pc = "join_all"
  /\ \A t \in Tasks : task_pc[t] \in {"none", "sent", "failed"}
  /\ sched_pc' = "recv"
  /\ UNCHANGED <<task_pc, results_chan, displayed>>
  /\ UNCHANGED <<collector_vars, downloader_vars, client_vars, runner_vars,
                 display_vars, list_vars>>

\* one iteration of `while let Some((i, res)) = rx.recv().await`: with a
\* buffered result, res.display_stats(); with None (every sender is dropped
\* by now and the buffer is empty) run() returns Ok(())
RecvResult ==
  /\ sched_pc = "recv"
  /\ IF results_chan # <<>>
       THEN /\ displayed' = Append(displayed, Head(results_chan))
            /\ results_chan' = Tail(results_chan)
            /\ UNCHANGED sched_pc
       ELSE /\ sched_pc' = "done"
            /\ UNCHANGED <<results_chan, displayed>>
  /\ UNCHANGED task_pc
  /\ UNCHANGED <<collector_vars, downloader_vars, client_vars, runner_vars,
                 display_vars, list_vars>>

NextRun ==
  \/ \E n \in 0..MaxTests, ok \in BOOLEAN : RunSpawn(n, ok)
  \/ \E t \in Tasks, ok \in BOOLEAN : TaskExecute(t, ok)
  \/ \E t \in Tasks : TaskSend(t)
  \/ JoinAll
  \/ RecvResult

SpecRun == Init /\ [][NextRun]_vars

(***************************************************************************)
(* TestRunner::upload_test (runner.rs): one run of one TestRunner.  The     *)
(* measured durations are kept as Some / None only.                         *)
(***************************************************************************)
\* BroadcastMode; Sync takes the branch of Async in wait_retries
BroadcastModes == {"Commit", "Async"}

\* the configurations TestRunner::generate hands to a runner
Tests ==
  [blob_count : 0..MaxBlobs, download : BOOLEAN, delete : BOOLEAN,
   broadcast_mode : BroadcastModes]

\* test.get_key_with_prefix(&i.to_string())
Key(i) == KeyNames[i + 1]

\* wait_retries of upload_test
WaitRetries(mode) ==
  IF mode = "Commit" THEN WaitRetriesCommit ELSE WaitRetriesOther

\* the keys a run can upload
Keys == {Key(i) : i \in 0..(MaxBlobs - 1)}

\* TxReceipt.status of an upload: Committed under BroadcastMode::Commit
TxStatus == {"Pending", "Committed"}
TxStatuses(mode) == IF mode = "Commit" THEN {"Committed"} ELSE TxStatus

\* upload_config.blob_size_bytes(), the size of every blob of a run
BlobSizeBytes == 10

\* the Timing upload_test inserts for an uploaded key
Timing(key) ==
  [key |-> key, size |-> BlobSizeBytes, upload_time |-> TRUE,
   download_time |-> FALSE, delete_time |-> FALSE]

\* HashMap::insert
MapInsert(map, key, value) ==
  [k \in DOMAIN map \cup {key} |-> IF k = key THEN value ELSE map[k]]

\* a network call of the run, as the history records it; n counts the
\* consecutive failed polls of one key, which share an entry
Call(op, key, ok) == [op |-> op, key |-> key, ok |-> ok, n |-> 1]

\* the history after a poll of key
Polled(key, ok) ==
  LET last == Len(calls) IN
  IF /\ ~ok /\ last > 0 /\ key_fails > 0
     /\ calls[last].op = "poll" /\ calls[last].key = key /\ ~calls[last].ok
    THEN [calls EXCEPT ![last].n = @ + 1]
    ELSE Append(calls, Call("poll", key, ok))

\* upload_test returns
Return(result) ==
  /\ runner_pc' = "done"
  /\ run_result' = result

\* the polled object never resolves
Never == -1
\* failed polls before a polled object resolves
Waits == 0..MaxWaits \cup {Never}

\* TestRunner::generate builds the runner; the wallet comes with its
\* sequence initialised from the chain
Generate(t) ==
  /\ runner_pc = "new"
  /\ runner_pc' = "setup"
  /\ test' = t
  /\ wallet_sequence' = chain_sequence
  /\ UNCHANGED <<upload_i, results, tx_results, chain_sequence, to_try, try_i,
                 retries, poll_wait, key_fails, iter_order, remaining,
                 run_result, calls>>
  /\ UNCHANGED <<collector_vars, downloader_vars, client_vars, scheduler_vars,
                 display_vars, list_vars>>

\* Setup: Bucket::attach(bucket) when the configuration names a bucket,
\* Bucket::new otherwise; an error of either returns.  The two sequence
\* numbers are counted from the state Setup leaves.
Setup(ok) ==
  /\ runner_pc = "setup"
  /\ calls' = Append(calls, Call("setup", "", ok))
  /\ IF ok THEN runner_pc' = "upload" /\ UNCHANGED run_result
           ELSE Return("SetupFailed")
  /\ UNCHANGED <<test, upload_i, results, tx_results, wallet_sequence,
                 chain_sequence, to_try, try_i, retries, poll_wait, key_fails,
                 iter_order, remaining>>
  /\ UNCHANGED <<collector_vars, downloader_vars, client_vars, scheduler_vars,
                 display_vars, list_vars>>

\* one pass of the upload loop up to the return of upload_blob: the SDK
\* increments the wallet's sequence whether or not the transaction lands
UploadBlob(ok, status) ==
  /\ runner_pc = "upload"
  /\ upload_i < test.blob_count
  /\ status \in TxStatuses(test.broadcast_mode)
  /\ LET key == Key(upload_i) IN
       /\ calls' = Append(calls, Call("put", key, ok))
       /\ wallet_sequence' = wallet_sequence + 1
       /\ IF ok
            THEN /\ chain_sequence' = chain_sequence + 1
                 /\ tx_results' =
                      Append(tx_results, [key |-> key, status |-> status])
                 /\ results' = MapInsert(results, key, Timing(key))
                 /\ upload_i' = upload_i + 1
                 /\ UNCHANGED runner_pc
            ELSE /\ runner_pc' = "init_sequence"
                 /\ UNCHANGED <<chain_sequence, tx_results, results, upload_i>>
  /\ UNCHANGED <<test, to_try, try_i, retries, poll_wait, key_fails,
                 iter_order, remaining, run_result>>
  /\ UNCHANGED <<collector_vars, downloader_vars, client_vars, scheduler_vars,
                 display_vars, list_vars>>

\* the sequence wallet.init_sequence leaves in the wallet, were it to keep
\* the wallet's own number
SequenceAfterInitKept == wallet_sequence

\* the sequence wallet.init_sequence leaves in the wallet: the chain's
SequenceAfterInit == chain_sequence

\* the Err arm of the upload loop: wallet.init_sequence(&provider).await?
\* and continue
InitSequence(ok) ==
  /\ runner_pc = "init_sequence"
  /\ calls' = Append(calls, Call("init_sequence", "", ok))
  /\ IF ok
       THEN /\ wallet_sequence' = SequenceAfterInit
            /\ upload_i' = upload_i + 1
            /\ runner_pc' = "upload"
            /\ UNCHANGED run_result
       ELSE /\ Return("SequenceFailed")
            /\ UNCHANGED <<wallet_sequence, upload_i>>
  /\ UNCHANGED <<test, results, tx_results, chain_sequence, to_try, try_i,
                 retries, poll_wait, key_fails, iter_order, remaining>>
  /\ UNCHANGED <<collector_vars, downloader_vars, client_vars, scheduler_vars,
                 display_vars, list_vars>>

\* loop_until_blob_found: the not committed uploads
NotCommitted(txs) == SelectSeq(txs, LAMBDA tx : tx.status # "Committed")

\* to_try, were every uploaded key polled
ToTryAll(txs) == txs

\* loop_until_blob_found: to_try
ToTry(txs) ==
  LET not_committed == NotCommitted(txs) IN
  IF not_committed = <<>>
    THEN << txs[Len(txs)] >>
    ELSE << not_committed[1],
            not_committed[(Len(not_committed) \div 2) + 1] >>

\* the orders in which a HashMap can yield its keys; the order of a map is
\* the same each time it is iterated, as long as no key is inserted
IterOrders(map) ==
  {order \in [1..Cardinality(DOMAIN map) -> DOMAIN map] :
     \A i, j \in DOMAIN order : order[i] = order[j] => i = j}

\* the loop over results (download or delete) starts
StartLoop(pc, order) ==
  /\ runner_pc' = pc
  /\ remaining' = order

\* after the download loop, or in place of it: the delete loop or return
AfterDownload(order) ==
  IF test.delete
    THEN StartLoop("delete", order) /\ UNCHANGED run_result
    ELSE Return("Ok") /\ UNCHANGED remaining

\* the upload loop, were it left after its first pass
UploadsDoneEarly == upload_i >= 1 \/ upload_i = test.blob_count

\* for i in 0..upload_config.blob_count is exhausted
UploadsDone == upload_i = test.blob_count

\* the upload loop is over: bail when nothing was uploaded, else enter
\* loop_until_blob_found, the delete loop, or return
AfterUploads ==
  /\ runner_pc = "upload"
  /\ UploadsDone
  /\ \E order \in IterOrders(results) :
       /\ iter_order' = order
       /\ IF results = NoResults
            THEN /\ Return("NoObjectsUploaded")
                 /\ UNCHANGED <<to_try, try_i, retries, poll_wait, remaining>>
            ELSE IF test.download
              THEN /\ runner_pc' = "poll"
                   /\ to_try' = ToTry(tx_results)
                   /\ try_i' = 1
                   /\ retries' = WaitRetries(test.broadcast_mode)
                   /\ poll_wait' \in Waits
                   /\ UNCHANGED <<remaining, run_result>>
              ELSE /\ AfterDownload(order)
                   /\ UNCHANGED <<to_try, try_i, retries, poll_wait>>
  /\ UNCHANGED <<test, upload_i, results, tx_results, wallet_sequence,
                 chain_sequence, key_fails, calls>>
  /\ UNCHANGED <<collector_vars, downloader_vars, client_vars, scheduler_vars,
                 display_vars, list_vars>>

\* the retry budget, were it given anew to every sampled key
RetriesLeftPerKey(ok) ==
  IF ok THEN WaitRetries(test.broadcast_mode) ELSE retries - 1

\* `mut retries` after one attempt: the parameter is one counter for the whole
\* for loop, a failed attempt takes one from it and a success leaves it
RetriesLeft(ok) == IF ok THEN retries ELSE retries - 1

\* the poller, were an exhausted budget an error of the run
PollReturnsTimeout(exhausted) ==
  IF exhausted
    THEN Return("ConsistencyTimeout") /\ UNCHANGED remaining
    ELSE StartLoop("download", iter_order) /\ UNCHANGED run_result

\* loop_until_blob_found returns (), with the budget exhausted or not, and
\* upload_test goes on with the loop over results
PollReturns(exhausted) ==
  StartLoop("download", iter_order) /\ UNCHANGED run_result

\* loop_until_blob_found: one download_blob of the key being polled.  Ok
\* breaks to the next key, whose object resolves after wait failed polls;
\* Err takes one retry from the shared budget, and with the budget at 0 no
\* further key is tried.
PollAttempt(wait) ==
  /\ runner_pc = "poll"
  /\ LET key == to_try[try_i].key
         ok == poll_wait # Never /\ key_fails >= poll_wait
         left == RetriesLeft(ok)
         over == IF ok THEN try_i = Len(to_try) ELSE left = 0
     IN /\ calls' = Polled(key, ok)
        /\ retries' = left
        /\ try_i' = IF ok THEN try_i + 1 ELSE try_i
        /\ key_fails' = IF ok THEN 0 ELSE key_fails + 1
        /\ poll_wait' = IF ok /\ ~over THEN wait ELSE poll_wait
        /\ IF over THEN PollReturns(~ok)
                   ELSE UNCHANGED <<runner_pc, remaining, run_result>>
  /\ UNCHANGED <<test, upload_i, results, tx_results, wallet_sequence,
                 chain_sequence, to_try, iter_order>>
  /\ UNCHANGED <<collector_vars, downloader_vars, client_vars, scheduler_vars,
                 display_vars, list_vars>>

\* the download loop, were it left at the first failed get
DownloadLoopDoneAtError(ok) == Len(remaining) = 1 \/ ~ok

\* the download loop has visited every entry of results
DownloadLoopDone(ok) == Len(remaining) = 1

\* a download loop that notes a duration whatever download_blob returned
WithDownloadTimeAlways(res, ok) == [res EXCEPT !.download_time = TRUE]

\* Ok(v) => res.download_time = Some(v); Err leaves the Timing as it is
WithDownloadTime(res, ok) ==
  IF ok THEN [res EXCEPT !.download_time = TRUE] ELSE res

\* one pass of the download loop over results: download_blob of the full
\* object; Err leaves download_time None
DownloadBlob(ok) ==
  /\ runner_pc = "download"
  /\ LET key == Head(remaining) IN
       /\ calls' = Append(calls, Call("get", key, ok))
       /\ results' = [results EXCEPT ![key] = WithDownloadTime(@, ok)]
  /\ IF DownloadLoopDone(ok)
       THEN AfterDownload(iter_order)
       ELSE /\ remaining' = Tail(remaining)
            /\ UNCHANGED <<runner_pc, run_result>>
  /\ UNCHANGED <<test, upload_i, tx_results, wallet_sequence, chain_sequence,
                 to_try, try_i, retries, poll_wait, key_fails, iter_order>>
  /\ UNCHANGED <<collector_vars, downloader_vars, client_vars, scheduler_vars,
                 display_vars, list_vars>>

\* the delete loop, were it left at the first failed delete
DeleteLoopDoneAtError(ok) == Len(remaining) = 1 \/ ~ok

\* the delete loop has visited every entry of results
DeleteLoopDone(ok) == Len(remaining) = 1

\* one pass of the delete loop over results: delete_blob, a transaction of
\* the wallet; Err leaves delete_time None
DeleteBlob(ok) ==
  /\ runner_pc = "delete"
  /\ LET key == Head(remaining) IN
       /\ calls' = Append(calls, Call("delete", key, ok))
       /\ results' = [results EXCEPT ![key].delete_time = ok]
  /\ wallet_sequence' = wallet_sequence + 1
  /\ chain_sequence' = IF ok THEN chain_sequence + 1 ELSE chain_sequence
  /\ IF DeleteLoopDone(ok)
       THEN Return("Ok") /\ UNCHANGED remaining
       ELSE /\ remaining' = Tail(remaining)
            /\ UNCHANGED <<runner_pc, run_result>>
  /\ UNCHANGED <<test, upload_i, tx_results, to_try, try_i, retries,
                 poll_wait, key_fails, iter_order>>
  /\ UNCHANGED <<collector_vars, downloader_vars, client_vars, scheduler_vars,
                 display_vars, list_vars>>

\* TestResult { times }: the values of results, here still under their keys
\* uploads(), downloads(), deletes(): the Timings that hold the duration
Phases == {"upload", "download", "delete"}
HasTime(t, phase) ==
  IF phase = "upload" THEN t.upload_time
  ELSE IF phase = "download" THEN t.download_time ELSE t.delete_time
TimesOf(times, phase) == {k \in DOMAIN times : HasTime(times[k], phase)}

\* the sum of the sizes of the Timings of a set of keys
RECURSIVE SizeSum(_, _)
SizeSum(times, ks) ==
  IF ks = {} THEN 0
  ELSE LET k == CHOOSE x \in ks : TRUE
       IN times[k].size + SizeSum(times, ks \ {k})

\* TestResult::total_bytes: the sizes of all Timings
TotalBytes(times) == SizeSum(times, DOMAIN times)

\* TimeInfo::try_from(durations).ok(), of which the model keeps the count
TimeInfo(ks) ==
  IF ks = {} THEN [some |-> FALSE] ELSE [some |-> TRUE, count |-> Cardinality(ks)]

\* TestStats::from_upload: per phase, Some(BucketStats) when the phase has a
\* TimeInfo, with the total_bytes of the whole TestResult
FromUpload(times) ==
  [phase \in Phases |->
     LET time == TimeInfo(TimesOf(times, phase))
     IN IF time.some
          THEN [some |-> TRUE, total_bytes |-> TotalBytes(times), time |-> time]
          ELSE [some |-> FALSE]]

NextRunner ==
  \/ \E t \in Tests : Generate(t)
  \/ \E ok \in BOOLEAN : Setup(ok)
  \/ \E ok \in BOOLEAN, status \in TxStatus : UploadBlob(ok, status)
  \/ \E ok \in BOOLEAN : InitSequence(ok)
  \/ AfterUploads
  \/ \E wait \in Waits : PollAttempt(wait)
  \/ \E ok \in BOOLEAN : DownloadBlob(ok)
  \/ \E ok \in BOOLEAN : DeleteBlob(ok)

SpecRunner == Init /\ [][NextRunner]_vars

(***************************************************************************)
(* Helpers of the properties.                                               *)
(***************************************************************************)
\* the aggregate of kind k, or the seed when k has not been seen
EntryOf(agg, k) == IF k \in DOMAIN agg THEN agg[k] ELSE NewAggregatedOperation

\* the positions of the logged records of kind k: all, successful, failed
LoggedOf(k) == {i \in 1..Len(aggLog) : aggLog[i].op_type = k}
SucceededOf(k) == {i \in LoggedOf(k) : aggLog[i].error = ""}
FailedOf(k) == {i \in LoggedOf(k) : aggLog[i].error # ""}

Millisecond == OneSecond \div 1000
FloorMs(d) == (d \div Millisecond) * Millisecond
CeilMs(d) == -((-d) \div Millisecond) * Millisecond

\* the Aggregator obtained by inserting the records of seq in order
RECURSIVE InsertAll(_, _)
InsertAll(agg, seq) ==
  IF seq = <<>> THEN agg
  ELSE InsertAll(AggregatorInsert(agg, Head(seq)), Tail(seq))

(***************************************************************************)
(* Claims about the Aggregator.                                             *)
(***************************************************************************)
\* C7: inserting a record whose error is non-empty raises error_count of its
\* kind by exactly 1 and leaves total_bytes, min_duration, max_duration,
\* total_duration, the worker set and the span start/end of that kind as
\* they were (the seed values when the kind is new).
C7_ErrorInsertFrame ==
  [][ (Len(aggLog') = Len(aggLog) + 1 /\ aggLog'[Len(aggLog')].error # "") =>
        LET op == aggLog'[Len(aggLog')]
            old == EntryOf(aggregator, op.op_type)
            new == EntryOf(aggregator', op.op_type)
        IN /\ new.errors = old.errors + 1
           /\ new.total_bytes = old.total_bytes
           /\ new.min_duration = old.min_duration
           /\ new.max_duration = old.max_duration
           /\ new.total_duration = old.total_duration
           /\ new.threads = old.threads
           /\ new.start_time = old.start_time
           /\ new.end_time = old.end_time ]_vars

\* a failed record with bytes, a duration and a new worker id was inserted
\* after a successful record of the same kind
C7_Witness ==
  \E k \in DOMAIN aggregator : \E i \in SucceededOf(k), j \in FailedOf(k) :
     /\ i < j
     /\ aggLog[j].size > 0
     /\ OpDuration(aggLog[j]) > OpDuration(aggLog[i])
     /\ aggLog[j].id # aggLog[i].id
     /\ aggregator[k].errors = 1

C9_AvgWithinMinMaxMixed ==
  \A k \in DOMAIN aggregator :
    aggregator[k].n - aggregator[k].errors > 0 =>
      /\ aggregator[k].min_duration <= AvgDuration(aggregator[k])
      /\ AvgDuration(aggregator[k]) <= aggregator[k].max_duration

\* C10: inserting the logged records in any order gives the same Aggregator,
\* and concurrency() of a kind is the number of distinct worker ids among
\* the successful records of that kind.
C10_OrderIndependent ==
  /\ \A p \in Permutations(1..Len(aggLog)) :
        InsertAll(AggregatorNew, [i \in 1..Len(aggLog) |-> aggLog[p[i]]])
          = aggregator
  /\ \A k \in DOMAIN aggregator :
        Concurrency(aggregator[k])
          = Cardinality({aggLog[i].id : i \in SucceededOf(k)})

\* three records were inserted, successful and failed, of two kinds, the
\* successful ones of one kind by two workers and with different spans
C10_Witness ==
  /\ Len(aggLog) = 3
  /\ Cardinality(DOMAIN aggregator) = 2
  /\ \E k \in DOMAIN aggregator :
        /\ Concurrency(aggregator[k]) = 2
        /\ \E i, j \in SucceededOf(k) :
              i < j /\ aggLog[i].end > aggLog[j].end
  /\ \E i \in 1..Len(aggLog) : aggLog[i].error # ""

\* the sum of the sizes of the logged records with index in S
RECURSIVE SumSizes(_)
SumSizes(S) ==
  IF S = {} THEN 0
  ELSE LET i == CHOOSE j \in S : TRUE
       IN aggLog[i].size + SumSizes(S \ {i})

\* max(end) - min(start) over the logged records with index in S
SpanOf(S) ==
  LET last == CHOOSE i \in S : \A j \in S : aggLog[j].end <= aggLog[i].end
      first == CHOOSE i \in S : \A j \in S : aggLog[i].start <= aggLog[j].start
  IN aggLog[last].end - aggLog[first].start

\* C11: once a kind has received a non-empty set of records, all of them
\* successful, its duration() is max(end) - min(start) over those records,
\* its avg_throughput() is (sum of sizes) / duration(), its
\* objects_per_sec() is (number of records) / duration(), and min_duration
\* and max_duration are the smallest and the largest single-record duration.
C11_DerivedStatistics ==
  \A k \in DOMAIN aggregator :
    LET a == aggregator[k]
        S == SucceededOf(k)
    IN (S # {} /\ FailedOf(k) = {}) =>
         /\ Duration(a) = SpanOf(S)
         /\ F64Eq(AvgThroughput(a), F64Quotient(SumSizes(S), SpanOf(S)))
         /\ F64Eq(ObjectsPerSec(a), F64Quotient(Cardinality(S), SpanOf(S)))
         /\ \E i \in S : a.min_duration = OpDuration(aggLog[i])
         /\ \A i \in S : a.min_duration <= OpDuration(aggLog[i])
         /\ \E i \in S : a.max_duration = OpDuration(aggLog[i])
         /\ \A i \in S : a.max_duration >= OpDuration(aggLog[i])

\* a kind that received overlapping successful records of different
\* durations and sizes, and no failed one
C11_Witness ==
  \E k \in DOMAIN aggregator :
    /\ FailedOf(k) = {}
    /\ aggregator[k].total_bytes > 0
    /\ \E i, j \in SucceededOf(k) :
          /\ OpDuration(aggLog[i]) < OpDuration(aggLog[j])
          /\ aggLog[j].start < aggLog[i].end
          /\ Duration(aggregator[k]) < aggregator[k].total_duration

\* C12: display() and the derived statistics never panic, and
\* avg_throughput(), objects_per_sec() and avg_duration() are zero for a
\* kind that has no successful record yet or whose span duration is 0.
C12_DerivedStatisticsDefined ==
  /\ ~DisplayPanics(aggregator)
  /\ \A k \in DOMAIN aggregator :
        LET a == aggregator[k]
        IN (SucceededOf(k) = {} \/ Duration(a) = 0) =>
             /\ AvgThroughput(a) = F64Zero
             /\ ObjectsPerSec(a) = F64Zero
             /\ AvgDuration(a) = 0

(***************************************************************************)
(* Claims about TestRunner::upload_test.                                    *)
(***************************************************************************)
\* positions in the history of the calls of one kind, and of one key
CallIdx(op) == {i \in 1..Len(calls) : calls[i].op = op}
Issued(op, key) == {i \in CallIdx(op) : calls[i].key = key}
\* the keys whose upload succeeded
UploadedKeys == {calls[i].key : i \in {j \in CallIdx("put") : calls[j].ok}}
\* upload_test has returned
RunOver == run_result # "running"
\* the phase a call belongs to
PhaseOf(op) ==
  CASE op = "setup" -> 0
    [] op \in {"put", "init_sequence"} -> 1
    [] op = "poll" -> 2
    [] op = "get" -> 3
    [] op = "delete" -> 4

\* C13: the calls of a run are issued phase by phase, Setup, Upload,
\* WaitForConsistency, Download, Delete: a poll or a download get is issued
\* only after all blob_count upload attempts have completed, a delete only
\* after the download get of every uploaded key has completed, and a run
\* that returns Ok has been through every phase its configuration asks for.
C13_PhasesInOrder ==
  /\ \A i \in 1..(Len(calls) - 1) :
        PhaseOf(calls[i].op) <= PhaseOf(calls[i + 1].op)
  /\ CallIdx("poll") \cup CallIdx("get") # {} =>
        Cardinality(CallIdx("put")) = test.blob_count
  /\ (CallIdx("delete") # {} /\ test.download) =>
        \A k \in UploadedKeys : Issued("get", k) # {}
  /\ run_result = "Ok" =>
        /\ Cardinality(CallIdx("put")) = test.blob_count
        /\ test.download =>
             CallIdx("poll") # {} /\ \A k \in UploadedKeys : Issued("get", k) # {}
        /\ test.delete => \A k \in UploadedKeys : Issued("delete", k) # {}

\* a run through all five phases with two uploaded keys and a failed get
C13_Witness ==
  /\ run_result = "Ok"
  /\ test.download /\ test.delete
  /\ Cardinality(UploadedKeys) >= 2
  /\ \E i \in CallIdx("get") : ~calls[i].ok
  /\ CallIdx("delete") # {}

\* C14: a run that got past Setup and in which no upload succeeded returns
\* the fatal error NoObjectsUploaded and has issued no poll, no download
\* and no delete.
C14_NoUploadIsFatal ==
  (RunOver /\ CallIdx("put") # {} /\ UploadedKeys = {}) =>
     /\ run_result = "NoObjectsUploaded"
     /\ CallIdx("poll") \cup CallIdx("get") \cup CallIdx("delete") = {}

\* the Put, Get and Delete records the Collector holds
OpsOf(kind) == SelectSeq(ops, LAMBDA op : op.op_type = kind)

\* C15: when all blob_count = n >= 1 uploads of a run failed, the run
\* returns NoObjectsUploaded and the Collector holds exactly n Put records,
\* each with a non-empty error, and no Get or Delete record.
C15_FailedUploadsRecorded ==
  (RunOver /\ test.blob_count >= 1 /\ UploadedKeys = {}
     /\ \E i \in CallIdx("put") : calls[i].key = Key(test.blob_count - 1)) =>
     /\ run_result = "NoObjectsUploaded"
     /\ Len(OpsOf("Put")) = test.blob_count
     /\ \A i \in 1..Len(OpsOf("Put")) : OpsOf("Put")[i].error # ""
     /\ OpsOf("Get") = <<>> /\ OpsOf("Delete") = <<>>

\* C16: a run returns an error only when Setup failed or when no upload
\* succeeded; a failed re-synchronisation of the sequence, a failed poll,
\* get or delete does not end the run with an error.
C16_OnlySetupOrNoUploadAborts ==
  (RunOver /\ run_result # "Ok") =>
     \/ \E i \in CallIdx("setup") : ~calls[i].ok
     \/ UploadedKeys = {}

\* C17: every failed upload is followed by a re-synchronisation of the
\* wallet's sequence, so that each upload is attempted with the sequence
\* the chain expects; no key is uploaded twice; and the key of a failed
\* upload is in no poll, get or delete call, not in the key set of the later
\* phases and not in the returned TestResult.
C17_ResyncAndSkip ==
  /\ \A i \in CallIdx("put") :
        (~calls[i].ok /\ i < Len(calls)) => calls[i + 1].op = "init_sequence"
  /\ runner_pc = "upload" => wallet_sequence = chain_sequence
  /\ \A k \in Keys : Cardinality(Issued("put", k)) <= 1
  /\ \A i \in 1..Len(calls) :
        calls[i].op \in {"poll", "get", "delete"} => calls[i].key \in UploadedKeys
  /\ DOMAIN results = UploadedKeys
  /\ \A i \in 1..Len(remaining) : remaining[i] \in UploadedKeys
  /\ \A i \in 1..Len(to_try) : to_try[i].key \in UploadedKeys

\* a run that returned its TestResult after a failed upload, its
\* re-synchronisation and a later successful upload, polls, gets and deletes
C17_Witness ==
  /\ run_result = "Ok"
  /\ test.download /\ test.delete
  /\ \E i \in CallIdx("put") :
        /\ ~calls[i].ok
        /\ calls[i].key \notin DOMAIN results
        /\ \E j \in CallIdx("put") : j > i /\ calls[j].ok

\* C18: the download loop fetches only uploaded keys and none twice; once
\* the Download phase is over (the run deletes or has returned after a get,
\* or has returned Ok with downloads configured) every uploaded key has been
\* fetched exactly once; and a run that issued a get returns Ok, whatever
\* the gets returned.
C18_OneGetPerKey ==
  /\ \A k \in Keys :
        /\ Cardinality(Issued("get", k)) <= 1
        /\ Issued("get", k) # {} => k \in UploadedKeys
  /\ (/\ runner_pc \in {"delete", "done"}
      /\ CallIdx("get") # {} \/ (test.download /\ run_result = "Ok")) =>
        \A k \in UploadedKeys : Cardinality(Issued("get", k)) = 1
  /\ (RunOver /\ CallIdx("get") # {}) => run_result = "Ok"

\* a finished run of two uploaded keys whose first get failed
C18_Witness ==
  /\ RunOver
  /\ Cardinality(UploadedKeys) >= 2
  /\ \E i, j \in CallIdx("get") : i < j /\ ~calls[i].ok

\* C19: the delete loop deletes only uploaded keys, only when delete is
\* configured, and none twice; once the Delete phase is over (the run has
\* returned after a delete, or has returned Ok with delete configured)
\* exactly one delete has been issued for every uploaded key, also for a key
\* whose get failed; and a run that issued a delete returns Ok, whatever
\* the deletes returned.
C19_OneDeletePerKey ==
  /\ \A k \in Keys :
        /\ Cardinality(Issued("delete", k)) <= 1
        /\ Issued("delete", k) # {} => k \in UploadedKeys /\ test.delete
  /\ (/\ RunOver
      /\ CallIdx("delete") # {} \/ (test.delete /\ run_result = "Ok")) =>
        \A k \in UploadedKeys : Cardinality(Issued("delete", k)) = 1
  /\ (RunOver /\ CallIdx("delete") # {}) => run_result = "Ok"

\* a finished run of two uploaded keys: the first delete failed, and a key
\* whose get failed was deleted
C19_Witness ==
  /\ RunOver
  /\ Cardinality(UploadedKeys) >= 2
  /\ \E i, j \in CallIdx("delete") : i < j /\ ~calls[i].ok
  /\ \E i \in CallIdx("get") :
        ~calls[i].ok /\ Issued("delete", calls[i].key) # {}

\* the keys polled so far, and loop_until_blob_found has returned
PolledKeys == {calls[i].key : i \in CallIdx("poll")}
PollOver == runner_pc \in {"download", "delete", "done"} /\ CallIdx("poll") # {}
\* the uploads whose transaction is not committed, as positions of tx_results
PendingIdx == {i \in 1..Len(tx_results) : tx_results[i].status # "Committed"}
\* the n-th smallest element of a set of numbers
RECURSIVE Nth(_, _)
Nth(S, n) ==
  LET m == CHOOSE x \in S : \A y \in S : x <= y
  IN IF n = 1 THEN m ELSE Nth(S \ {m}, n - 1)

RECURSIVE FailedIn(_)
FailedIn(cs) ==
  IF cs = <<>> THEN 0
  ELSE (IF Head(cs).op = "poll" /\ ~Head(cs).ok THEN Head(cs).n ELSE 0)
         + FailedIn(Tail(cs))

\* the failed poll attempts logged up to entry i of calls, and those of a key
FailedPolls(i) == FailedIn(SubSeq(calls, 1, i))
FailedPollsOf(key) == FailedIn(SelectSeq(calls, LAMBDA c : c.key = key))

\* the number of successful polls logged before entry i of calls
SucceededBefore(i) ==
  Cardinality({j \in CallIdx("poll") : j < i /\ calls[j].ok})

\* loop_until_blob_found has been called and has returned
PollReturned == to_try # <<>> /\ runner_pc # "poll"

PollSucceeded(key) ==
  \E i \in CallIdx("poll") : calls[i].key = key /\ calls[i].ok

SampledKeys == {to_try[i].key : i \in 1..Len(to_try)}

\* C21 as stated: once the poller has returned, every sampled key has been
\* attempted at least once, and a key that never became readable has had R
\* failed attempts of its own.
C21_RetriesPerKey ==
  PollReturned =>
    \A key \in SampledKeys :
      /\ \E i \in CallIdx("poll") : calls[i].key = key
      /\ ~PollSucceeded(key) =>
           FailedPollsOf(key) = WaitRetries(test.broadcast_mode)

\* C21: the sampled keys are polled in order out of one budget of R failed
\* attempts: the poll logged after s successes is of sampled key s + 1 (a key
\* is left at its first success), the failed attempts of all keys together
\* never exceed R, the first sampled key is attempted, and the poller returns
\* only with every sampled key read or the budget spent.
C21_RetriesShared ==
  /\ \A i \in CallIdx("poll") :
       /\ SucceededBefore(i) < Len(to_try)
       /\ calls[i].key = to_try[SucceededBefore(i) + 1].key
       /\ FailedPolls(i) <= WaitRetries(test.broadcast_mode)
  /\ PollReturned =>
       /\ \E i \in CallIdx("poll") : calls[i].key = to_try[1].key
       /\ \/ SucceededBefore(Len(calls) + 1) = Len(to_try)
          \/ FailedPolls(Len(calls)) = WaitRetries(test.broadcast_mode)

\* the first sampled key was read after a failed attempt and the second one
\* used up what was left of the budget
C21_Witness ==
  /\ PollReturned
  /\ Cardinality(SampledKeys) = 2
  /\ PollSucceeded(to_try[1].key)
  /\ FailedPollsOf(to_try[1].key) > 0
  /\ ~PollSucceeded(to_try[2].key)
  /\ FailedPollsOf(to_try[2].key) > 0

\* C22: the poller is entered only by a run that has a download phase, and
\* while it runs it has attempts left; a step of the poller leaves the result
\* of the run undecided and either stays in the poller or, at the last
\* sampled key read or the last retry spent, starts the download loop over
\* every uploaded key.
C22_PollerNeverFails ==
  /\ [](runner_pc = "poll" =>
          test.download /\ retries > 0 /\ try_i <= Len(to_try))
  /\ [](CallIdx("poll") # {} => test.download)
  /\ [][runner_pc = "poll" =>
          /\ run_result' = "running"
          /\ runner_pc' \in {"poll", "download"}
          /\ (retries' = 0 \/ try_i' > Len(to_try)) <=> runner_pc' = "download"
          /\ runner_pc' = "download" =>
               {remaining'[i] : i \in 1..Len(remaining')} = UploadedKeys']_vars

\* the poller has spent every retry without a read, and the run is in its
\* download phase with a get issued
C22_Witness ==
  /\ PollReturned
  /\ \A i \in CallIdx("poll") : ~calls[i].ok
  /\ FailedPolls(Len(calls)) = WaitRetries(test.broadcast_mode)
  /\ CallIdx("get") # {}

(***************************************************************************)
(* Claims about the Downloader and the Collector.                           *)
(***************************************************************************)
\* the collect() calls of worker w that returned, as file names, by result
CollectedBy(w, res) ==
  SelectSeq(finished[w], LAMBDA o : o.collect = res)

\* the records of worker w in a sequence of Operations
ByWorker(seq, w) == SelectSeq(seq, LAMBDA op : op.id = ThreadId(w))

IsPrefix(p, q) == Len(p) <= Len(q) /\ p = SubSeq(q, 1, Len(p))

\* C1: a Downloader built with concurrency C >= 1 never has more than C
\* get_object calls in flight.
C1_AtMostCExecuting == concurrency >= 1 => executing <= concurrency

\* more keys were accepted than there are workers, and every worker of the
\* pool has a get in flight
C1_Witness ==
  /\ concurrency = 1
  /\ Len(accepted) = 2
  /\ executing = concurrency

\* C2: once Collector::close has returned, every record whose collect()
\* returned Ok is in the record list and was inserted into the Aggregator, in
\* channel order, and the consumer task has ended; a close() that was called
\* returns.
C2_CloseDrains ==
  /\ [](collector_closed =>
          /\ ops = sent
          /\ aggLog = sent
          /\ collector_chan = <<>>
          /\ collector_task = "done")
  /\ (client_pc = "collector_close" ~> client_pc = "idle")

\* close() has returned after two workers' records were collected
C2_Witness ==
  /\ collector_closed
  /\ Len(sent) = 2
  /\ \E w \in Workers : Len(CollectedBy(w, "Ok")) = 1

\* C3: once Downloader::close has returned, every accepted key was dequeued
\* and its download_blob has returned in some worker, no get is in flight and
\* all workers have left their loop; a close() that was called returns.
C3_CloseJoins ==
  /\ [](downloader_closed =>
          /\ downloader_chan = <<>>
          /\ executing = 0
          /\ \A w \in 1..concurrency : worker_pc[w] = "done"
          /\ \A i \in 1..Len(accepted) :
               \E w \in 1..concurrency : \E j \in 1..Len(finished[w]) :
                  finished[w][j].file = accepted[i])
  /\ (client_pc = "downloader_close" ~> client_pc = "idle")

\* close() has returned after a pool of two workers executed two keys, one
\* of which failed
C3_Witness ==
  /\ downloader_closed
  /\ concurrency = 2
  /\ Len(accepted) = 2
  /\ \E w \in Workers : \E j \in 1..Len(finished[w]) :
        finished[w][j].error # ""

\* C4 as stated: once at least two collect() calls have returned, all of them
\* Ok, and none is pending, get_operations() has one entry per call.
C4_AllCollectedListed ==
  ( /\ GetOperationsEnabled
    /\ Len(sent) >= 2
    /\ \A w \in Workers :
         /\ worker_pc[w] # "collect"
         /\ CollectedBy(w, "Err") = <<>> )
  => Len(GetOperations) = Len(sent)

\* C5: after Collector::close has returned, a collect() call is never kept
\* waiting (its return is enabled whatever the channel holds), it returns Err,
\* and the record list, the Aggregator and the channel stay as they were.
C5_CollectAfterCloseFails ==
  [][ \A w \in Workers :
        (collector_closed /\ worker_pc[w] = "collect") =>
          /\ ENABLED WorkerCollect(w)
          /\ worker_pc'[w] # "collect" =>
               /\ Len(finished'[w]) = Len(finished[w]) + 1
               /\ finished'[w][Len(finished'[w])].collect = "Err"
               /\ UNCHANGED <<ops, aggregator, aggLog, collector_chan, sent>>
    ]_vars

\* a worker's collect() was refused after the Collector had been closed
C5_Witness ==
  /\ collector_closed
  /\ \E w \in Workers : CollectedBy(w, "Err") # <<>>

\* C6: the record list is a prefix of the sequence of records enqueued on the
\* channel, the records inserted into the Aggregator are a prefix of the
\* record list, and the records of one caller are listed in the order in
\* which that caller's collect() calls returned.
C6_ArrivalOrder ==
  /\ IsPrefix(ops, sent)
  /\ IsPrefix(aggLog, ops)
  /\ \A w \in Workers :
       IsPrefix([i \in 1..Len(ByWorker(ops, w)) |-> ByWorker(ops, w)[i].file],
                [i \in 1..Len(CollectedBy(w, "Ok")) |->
                   CollectedBy(w, "Ok")[i].file])

\* one worker collected two records and both were listed and aggregated
C6_Witness ==
  /\ Len(aggLog) = 2
  /\ \E w \in Workers : Len(ByWorker(ops, w)) = 2

\* C23: a worker leaves its loop only at a recv() on the closed and empty
\* queue; a worker whose download_blob has returned, whatever the get and
\* the hand-off to the Collector gave, is back at the lock of the queue.
C23_WorkerSurvivesErrors ==
  [][\A w \in Workers :
       /\ (worker_pc[w] # "done" /\ worker_pc'[w] = "done") =>
            /\ worker_pc[w] = "recv"
            /\ downloader_chan = <<>>
            /\ ~downloader_sender
       /\ (worker_pc[w] = "collect" /\ worker_pc'[w] # "collect") =>
            /\ worker_pc'[w] = "lock"
            /\ Len(finished'[w]) = Len(finished[w]) + 1]_vars

\* a worker whose get failed and whose hand-off to the closed Collector
\* failed has executed another key afterwards
C23_Witness ==
  \E w \in Workers :
    /\ Len(finished[w]) = 2
    /\ finished[w][1].error # ""
    /\ finished[w][1].collect = "Err"

\* the executions of a key: the outcomes download_blob returned for it and
\* the workers inside download_blob with it
Returned(key) ==
  {<<w, i>> \in Workers \X (1..Len(accepted)) :
     i <= Len(finished[w]) /\ finished[w][i].file = key}
Executing(key) ==
  {w \in Workers : worker_pc[w] \in {"get", "collect"} /\ worker_op[w].file = key}
Queued(key) == {i \in 1..Len(downloader_chan) : downloader_chan[i] = key}
RecordsOf(key) == {i \in 1..Len(sent) : sent[i].file = key}
AcceptedKeys == {accepted[i] : i \in 1..Len(accepted)}

\* C24: every key download() accepted is in exactly one place: queued, or
\* with one worker inside download_blob, or returned once by one worker;
\* nothing else is queued, executed or recorded; an execution that returned
\* handed the open Collector exactly one record (none to a closed one), a
\* Get of that key whose error is set exactly when get_object failed (the
\* call that took 2 Ticks); once close() has returned every accepted key
\* has been executed.
C24_EachKeyOnce ==
  /\ \A key \in AcceptedKeys :
       Cardinality(Queued(key)) + Cardinality(Executing(key))
         + Cardinality(Returned(key)) = 1
  /\ \A i \in 1..Len(downloader_chan) : downloader_chan[i] \in AcceptedKeys
  /\ \A w \in Workers :
       /\ worker_pc[w] \in {"get", "collect"} => worker_op[w].file \in AcceptedKeys
       /\ \A i \in 1..Len(finished[w]) :
            LET o == finished[w][i]
            IN /\ o.file \in AcceptedKeys
               /\ Cardinality(RecordsOf(o.file)) = IF o.collect = "Ok" THEN 1 ELSE 0
  /\ \A i \in 1..Len(sent) :
       /\ sent[i].op_type = "Get"
       /\ \E w \in Workers : \E j \in 1..Len(finished[w]) :
            /\ finished[w][j].file = sent[i].file
            /\ finished[w][j].error = sent[i].error
       /\ sent[i].error # "" <=> sent[i].end - sent[i].start = Latency(FALSE)
  /\ downloader_closed => \A key \in AcceptedKeys : Cardinality(Returned(key)) = 1

\* two keys were accepted and executed by two workers, one get failed, and
\* both records are with the Collector
C24_Witness ==
  /\ downloader_closed
  /\ Len(accepted) = 2
  /\ Len(sent) = 2
  /\ \A w \in 1..2 : Len(finished[w]) = 1
  /\ \E i, j \in 1..2 : sent[i].error = "" /\ sent[j].error # ""

\* C25: the queue never holds more keys than its capacity; a download()
\* whose next key meets a full queue cannot take a step, and can again as
\* soon as a worker has dequeued a key; a download() on a Downloader whose
\* sender is gone returns at its first key, which is neither queued nor
\* accepted.
C25_BoundedQueue ==
  /\ [](Len(downloader_chan) <= DownloaderCap)
  /\ []((client_pc = "download" /\ downloader_sender
            /\ Len(downloader_chan) = DownloaderCap) => ~ENABLED DownloadSend)
  /\ [][(client_pc = "download" /\ ~ENABLED DownloadSend
            /\ Len(downloader_chan') < Len(downloader_chan))
          => (ENABLED DownloadSend)']_vars
  /\ [][(client_pc = "download" /\ ~downloader_sender /\ client_pc' # "download")
          => /\ client_pc' = "idle"
             /\ client_keys # <<>> /\ client_keys' = <<>>
             /\ downloader_chan' = downloader_chan
             /\ accepted' = accepted]_vars
  /\ []((client_pc = "download" /\ ~downloader_sender) => ENABLED DownloadSend)

\* download() is suspended with a key in hand at the full queue
C25_Witness ==
  /\ client_pc = "download"
  /\ client_keys # <<>>
  /\ downloader_sender
  /\ Len(downloader_chan) = DownloaderCap
  /\ ~ENABLED DownloadSend

\* C28: the record list changes only in a step of the consumer task that
\* pushes the record it received, and the Aggregator only in the consumer's
\* following insert of that record; no step of a worker inside collect() or
\* of the client changes either, and a get_operations() that is let through
\* the lock returns the record list as the consumer left it.
C28_SingleWriter ==
  /\ [][(ops' # ops) =>
          /\ collector_task = "recv" /\ collector_task' = "insert"
          /\ collector_chan # <<>>
          /\ ops' = Append(ops, Head(collector_chan))
          /\ aggregator' = aggregator]_vars
  /\ [][(aggregator' # aggregator) =>
          /\ collector_task = "insert" /\ collector_task' = "recv"
          /\ aggregator' = AggregatorInsert(aggregator, ops[Len(ops)])
          /\ ops' = ops]_vars
  /\ [](GetOperationsEnabled => GetOperations = aggLog)

\* two workers have handed over a record each and the consumer has pushed
\* and inserted both
C28_Witness ==
  /\ Len(ops) = 2
  /\ Len(aggLog) = 2
  /\ \A w \in 1..2 : Len(finished[w]) = 1 /\ finished[w][1].collect = "Ok"

(***************************************************************************)
(* Claims about Aggregator::insert.                                         *)
(***************************************************************************)
\* the record an insert step has added, and whether it was logged before
Inserting == Len(aggLog') = Len(aggLog) + 1
Inserted == aggLog'[Len(aggLog')]
Reinserted == \E i \in 1..Len(aggLog) : aggLog[i] = Inserted

\* C29: an insert leaves the Aggregator with the kinds it had plus the kind
\* of the record, and with the entry of every other kind as it was; the
\* entry of the record's kind counts one more record, and on the first
\* record of a kind it starts from the sentinels: after a failed first
\* record it holds +inf/-inf for span and min/max duration, after a
\* successful one the record's own start, end and duration.
C29_InsertTouchesOneKind ==
  [][Inserting =>
       LET op == Inserted
           kind == op.op_type
       IN /\ DOMAIN aggregator' = DOMAIN aggregator \cup {kind}
          /\ \A k \in DOMAIN aggregator \ {kind} : aggregator'[k] = aggregator[k]
          /\ aggregator'[kind].n = EntryOf(aggregator, kind).n + 1
          /\ kind \notin DOMAIN aggregator =>
               LET new == aggregator'[kind]
               IN IF op.error # ""
                    THEN /\ new.start_time = MAX_UTC /\ new.end_time = MIN_UTC
                         /\ new.min_duration = DurationMAX
                         /\ new.max_duration = DurationMIN
                    ELSE /\ new.start_time = op.start /\ new.end_time = op.end
                         /\ new.min_duration = OpDuration(op)
                         /\ new.max_duration = OpDuration(op)]_vars

\* the first record of a second kind was inserted, a failed one, after a
\* successful record of the first kind
C29_Witness ==
  /\ Cardinality(DOMAIN aggregator) = 2
  /\ Len(aggLog) = 2
  /\ aggLog[1].error = "" /\ aggLog[2].error # ""
  /\ aggLog[1].op_type # aggLog[2].op_type

\* C30 as stated: inserting a record that was inserted before leaves the
\* Aggregator unchanged.
C30_InsertIdempotent ==
  [][(Inserting /\ Reinserted) => aggregator' = aggregator]_vars

\* C30: inserting a record that was inserted before counts it again: n
\* grows by one, and errors by one for a failed record, total_bytes and
\* total_duration by the record's size and duration for a successful one;
\* span, min and max duration and the worker set are as before.
C30_ReinsertCountsAgain ==
  [][(Inserting /\ Reinserted) =>
       LET op == Inserted
           old == aggregator[op.op_type]
           new == aggregator'[op.op_type]
           ok == op.error = ""
       IN /\ new.n = old.n + 1
          /\ new.errors = old.errors + (IF ok THEN 0 ELSE 1)
          /\ new.total_bytes = old.total_bytes + (IF ok THEN op.size ELSE 0)
          /\ new.total_duration
               = old.total_duration + (IF ok THEN OpDuration(op) ELSE 0)
          /\ new.start_time = old.start_time
          /\ new.end_time = old.end_time
          /\ new.min_duration = old.min_duration
          /\ new.max_duration = old.max_duration
          /\ new.threads = old.threads]_vars

\* a successful record was inserted, then a later-ending one of its kind,
\* then the first one again
C30_Witness ==
  /\ Len(aggLog) = 3
  /\ aggLog[1] = aggLog[3]
  /\ aggLog[1].error = "" /\ aggLog[2].error = ""
  /\ aggLog[1].op_type = aggLog[2].op_type
  /\ aggLog[1].end < aggLog[2].end
  /\ aggregator[aggLog[1].op_type].n = 3

(***************************************************************************)
(* Claims about run().                                                      *)
(***************************************************************************)
\* the tasks whose test.execute() returned Ok
SucceededTasks == {t \in Tasks : task_pc[t] \in {"send", "sent"}}
DisplayedTasks == {displayed[i] : i \in 1..Len(displayed)}

\* C26: the step in which a task's run fails changes no other task, not the
\* result channel and not the position of run(); and when run() has
\* started its tasks and nothing can take a step any more, run() has
\* returned, every task has ended, and the statistics of exactly the runs
\* that succeeded have been displayed.
C26_FailureIsOnlyLogged ==
  /\ [][\A t \in Tasks :
          (task_pc[t] = "execute" /\ task_pc'[t] = "failed") =>
            /\ \A u \in Tasks \ {t} : task_pc'[u] = task_pc[u]
            /\ UNCHANGED <<sched_pc, results_chan, displayed>>]_vars
  /\ []((sched_pc \notin {"new", "err"} /\ ~ENABLED NextRun) =>
          /\ sched_pc = "done"
          /\ \A t \in Tasks : task_pc[t] \in {"none", "sent", "failed"}
          /\ DisplayedTasks = SucceededTasks)

(***************************************************************************)
(* Claims about the Display of Throughput and HumanDuration.                *)
(***************************************************************************)
\* t >= 2^k
ThroughputAtLeast(t, k) ==
  IF k >= 20 THEN t.hi >= Pow2(k - 20) ELSE t.hi > 0 \/ t.q >= 4 * Pow2(k)

\* the unit the thresholds give: 2^(10 u) <= t < 2^(10 (u + 1)), the last
\* unit having no upper end
UnitNames == <<"B/s", "KiB/s", "MiB/s", "GiB/s", "TiB/s">>
UnitOf(t) ==
  CHOOSE u \in 0..4 :
    /\ u > 0 => ThroughputAtLeast(t, 10 * u)
    /\ u < 4 => ~ThroughputAtLeast(t, 10 * (u + 1))

\* digits counts the last decimal place of t / 2^shift to within a half
WithinHalf(t, shift, decimals, digits) ==
  LET m == Pow10(decimals) IN
  IF shift < 20
    THEN LET e == digits * 4 * Pow2(shift) - t.q * m
         IN 2 * e <= 4 * Pow2(shift) /\ -2 * e <= 4 * Pow2(shift)
    ELSE LET D == Pow2(shift - 20)
             X == 2 * (digits * D - t.hi * m)
             e == 2 * t.q * m
         IN /\ X - D <= e \div QuartersPerMi
            /\ X + D >= -((-e) \div QuartersPerMi)

\* C31: what Display writes for a Throughput has the unit the binary
\* thresholds give, one decimal below GiB/s and two from GiB/s up, and as
\* number the value divided by the unit, to within half of the last decimal
\* written; 1536 is written as 1.5KiB/s and 500 as 500.0B/s.
C31_ThroughputUnits ==
  thr_out # NoOutput =>
    LET u == UnitOf(thr_in) IN
    /\ thr_out.unit = UnitNames[u + 1]
    /\ thr_out.decimals = IF u < 3 THEN 1 ELSE 2
    /\ WithinHalf(thr_in, 10 * u, thr_out.decimals, thr_out.digits)
    /\ thr_in = [hi |-> 0, q |-> 6144] =>
         thr_out.digits = 15 /\ thr_out.unit = "KiB/s"
    /\ thr_in = [hi |-> 0, q |-> 2000] =>
         thr_out.digits = 5000 /\ thr_out.unit = "B/s"

\* exactly 2^40 was written, as 1.00TiB/s
C31_Witness ==
  /\ thr_in = [hi |-> 1048576, q |-> 0]
  /\ thr_out = [form |-> "throughput", digits |-> 100, decimals |-> 2,
                unit |-> "TiB/s"]

\* the millisecond part of a duration truncated to milliseconds, and the
\* whole seconds the written components stand for
MillisPart(d) ==
  IF d.secs >= 0 \/ d.nanos = 0 THEN d.nanos \div 1000000
  ELSE -((OneSecond - d.nanos) \div 1000000)
WrittenSeconds(o) ==
  o.days * 86400 + o.hours * 3600 + o.minutes * 60 + o.seconds

\* the form the claim gives for whole seconds ts and millisecond part ms
FormOf(ts, ms) ==
  IF ts = 0 THEN "{}ms"
  ELSE IF ts < 60 THEN (IF ms # 0 THEN "{}.{:03}s" ELSE "{}s")
  ELSE IF ts < 3600 THEN "{}m {}.{:03}s"
  ELSE IF ts < 86400 THEN "{}h {}m {}.{:03}s"
  ELSE "{}d {}h {}m {}.{:03}s"

\* what was written has the form of (ts, ms) and components that add up to
\* it, each component within its range
WrittenAs(o, ts, ms) ==
  /\ o.form = FormOf(ts, ms)
  /\ WrittenSeconds(o) = ts
  /\ o.millis = ms
  /\ o.hours < 24 /\ o.minutes < 60 /\ o.seconds < 60

\* C32 as stated: every duration is written in the form of its whole
\* seconds, with components that add up to the duration truncated to
\* milliseconds.
C32_HumanDurationForms ==
  dur_out # NoOutput => WrittenAs(dur_out, NumSeconds(dur_in), MillisPart(dur_in))

\* the same for the durations that are non-negative: one whose nanoseconds
\* fit num_nanoseconds() is written with components that add up to it
\* truncated to milliseconds, a longer one with 000 for the milliseconds
HumanDurationFormsNonNegative ==
  (dur_out # NoOutput /\ dur_in.secs >= 0) =>
    IF dur_in.secs < NanosecondsNoneFrom
      THEN WrittenAs(dur_out, dur_in.secs, dur_in.nanos \div 1000000)
      ELSE WrittenAs(dur_out, dur_in.secs, 0)

(***************************************************************************)
(* Claims about list_bucket_items.                                          *)
(***************************************************************************)
\* the keys of the first n pages, in page order
RECURSIVE KeysOfPages(_)
KeysOfPages(n) ==
  IF n = 0 THEN <<>>
  ELSE KeysOfPages(n - 1)
         \o [i \in 1..Len(pages[n].objects) |-> FromUtf8Lossy(pages[n].objects[i])]

\* C33: list_bucket_items has one duration per page it was returned, every
\* query after the first starts at the next key of the page before, and it
\* goes on exactly while the last page carried a next key; when it returns
\* Ok the last page is the first one without next key and the keys returned
\* are those of all pages in page order.
C33_ListsAllPages ==
  /\ Len(query_durations) = Len(pages)
  /\ \A i \in 1..Len(pages) :
       pages[i].start_key = IF i = 1 THEN 0 ELSE pages[i - 1].next_key
  /\ \A i \in 1..Len(pages) - 1 : pages[i].next_key # 0
  /\ list_pc = "query" => pages # <<>> /\ pages[Len(pages)].next_key # 0
  /\ list_pc = "ok" =>
       /\ pages # <<>> /\ pages[Len(pages)].next_key = 0
       /\ list_results = KeysOfPages(Len(pages))

\* three pages were listed, the first with two keys and the second empty
C33_Witness ==
  /\ list_pc = "ok"
  /\ Len(pages) = 3
  /\ Len(pages[1].objects) = 2
  /\ pages[2].objects = <<>>
  /\ Len(list_results) = 3

(***************************************************************************)
(* Claims about the TestResult of a run.                                    *)
(***************************************************************************)
\* C34: of the TestResult a run returned, the stats of a phase exist exactly
\* when a key has a duration of that phase, count those keys, and have as
\* total_bytes the sizes of those keys only.
C34_StatsPerPhase ==
  run_result = "Ok" =>
    \A phase \in Phases :
      LET stats == FromUpload(results)[phase]
          ks == TimesOf(results, phase)
      IN /\ stats.some <=> ks # {}
         /\ stats.some =>
              /\ stats.time.count = Cardinality(ks)
              /\ stats.total_bytes = SizeSum(results, ks)

\* the calls of one kind for a key that succeeded
Succeeded(op, key) == {i \in Issued(op, key) : calls[i].ok}

\* C35: results holds exactly the keys whose upload succeeded, each once and
\* under its own key, each uploaded by one successful put and holding its
\* upload duration; a Timing holds a download duration only if a get of its
\* key succeeded and a delete duration only if a delete of its key
\* succeeded, and each key was downloaded and deleted at most once.
C35_OneTimingPerUploadedKey ==
  /\ DOMAIN results = {calls[i].key : i \in {j \in CallIdx("put") : calls[j].ok}}
  /\ \A k \in DOMAIN results :
       /\ results[k].key = k
       /\ results[k].upload_time
       /\ Cardinality(Succeeded("put", k)) = 1
       /\ results[k].download_time <=> Succeeded("get", k) # {}
       /\ results[k].delete_time <=> Succeeded("delete", k) # {}
       /\ Cardinality(Issued("get", k)) <= 1
       /\ Cardinality(Issued("delete", k)) <= 1

\* a run returned with two Timings: one key was downloaded and deleted, the
\* other failed to download and to delete
C35_Witness ==
  /\ run_result = "Ok"
  /\ \E k1, k2 \in DOMAIN results :
       /\ results[k1].download_time /\ results[k1].delete_time
       /\ ~results[k2].download_time /\ ~results[k2].delete_time
       /\ Issued("get", k2) # {} /\ Issued("delete", k2) # {}

\* C36: an insert never decreases the count, the error count, the total
\* bytes or the total duration of any kind, never increases its min
\* duration or span start, and never shrinks its max duration, span end or
\* worker set; at all times the error count of a kind is the number of its
\* failed records and its count the number of its failed and successful
\* records together.
C36_MonotoneAggregates ==
  /\ [][Inserting =>
          \A k \in DOMAIN aggregator' :
            LET old == EntryOf(aggregator, k)
                new == aggregator'[k]
            IN /\ new.n >= old.n /\ new.errors >= old.errors
               /\ new.total_bytes >= old.total_bytes
               /\ new.total_duration >= old.total_duration
               /\ new.min_duration <= old.min_duration
               /\ new.start_time <= old.start_time
               /\ new.max_duration >= old.max_duration
               /\ new.end_time >= old.end_time
               /\ old.threads \subseteq new.threads]_vars
  /\ [](\A k \in DOMAIN aggregator :
          /\ aggregator[k].errors <= aggregator[k].n
          /\ aggregator[k].errors = Cardinality(FailedOf(k))
          /\ aggregator[k].n
               = Cardinality(SucceededOf(k)) + Cardinality(FailedOf(k)))

\* a kind has had a successful record, a failed one, and a successful one
\* that is shorter, starts earlier and comes from another worker
C36_Witness ==
  /\ Len(aggLog) = 3
  /\ \A i \in 1..3 : aggLog[i].op_type = aggLog[1].op_type
  /\ aggLog[1].error = "" /\ aggLog[2].error # "" /\ aggLog[3].error = ""
  /\ OpDuration(aggLog[3]) < OpDuration(aggLog[1])
  /\ aggLog[3].start < aggLog[1].start
  /\ aggLog[3].id # aggLog[1].id
  /\ aggregator[aggLog[1].op_type].n = 3

\* C37: while run() waits in join_all, no task that is about to send its
\* result finds the result channel full: the channel is drained only after
\* join_all has returned, so such a task would be suspended in its send for
\* ever and run() with it.
C37_NoSenderBlockedForever ==
  sched_pc = "join_all" =>
    \A t \in Tasks : task_pc[t] = "send" => Len(results_chan) < ResultsCap

\* what is left to do for the poller: the retries it may still spend plus the
\* sampled keys it has not left yet
PollerMeasure(r, i) == r + (Len(to_try) + 1 - i)

\* C38: the failed poll attempts of all sampled keys together never exceed
\* the budget R the poller was started with; while the poller runs, what is
\* left of the budget is R minus the failed attempts so far, the poller can
\* take its next step whatever the service answers, and every step either
\* spends a retry or leaves a sampled key, so that it returns after at most
\* R plus the number of sampled keys attempts.
C38_PollerTerminates ==
  /\ [](FailedPolls(Len(calls)) <= WaitRetries(test.broadcast_mode))
  /\ [](runner_pc = "poll" =>
          /\ retries = WaitRetries(test.broadcast_mode) - FailedPolls(Len(calls))
          /\ PollerMeasure(retries, try_i) > 0
          /\ ENABLED (\E wait \in Waits : PollAttempt(wait)))
  /\ [][runner_pc = "poll" =>
          /\ PollerMeasure(retries', try_i') < PollerMeasure(retries, try_i)
          /\ runner_pc' = "poll" => PollerMeasure(retries', try_i') > 0]_vars

\* under the larger budget the first sampled key was read and the second one
\* spent all that was left
C38_Witness ==
  /\ PollReturned
  /\ test.broadcast_mode # "Commit"
  /\ Len(to_try) = 2
  /\ PollSucceeded(to_try[1].key)
  /\ FailedPolls(Len(calls)) = WaitRetriesOther

\* the workers of the pool that wait for the lock or for a key
IdleWorkers == {w \in Workers : worker_pc[w] \in {"lock", "recv"}}

\* C39: the lock of the shared receiver is held by exactly the worker that
\* is inside recv(), so at most one worker is inside recv() and no worker
\* holds the lock while it executes a get or hands in its record; a worker
\* waiting for a free lock can take it; and whenever a worker is idle and a
\* key is queued or the queue is closed, a worker can take the lock or
\* return from recv().
C39_LockOnlyAroundRecv ==
  /\ \A w \in Workers : worker_pc[w] = "recv" <=> rx_guard = w
  /\ Cardinality({w \in Workers : worker_pc[w] = "recv"}) <= 1
  /\ \A w \in Workers :
       (worker_pc[w] = "lock" /\ rx_guard = 0) => ENABLED WorkerLock(w)
  /\ (IdleWorkers # {} /\ (downloader_chan # <<>> \/ ~downloader_sender)) =>
       \E w \in IdleWorkers : ENABLED WorkerLock(w) \/ ENABLED WorkerRecv(w)

\* a pool of MaxWorkers workers with every worker executing a get at the
\* same time, the lock free
C39_Witness ==
  /\ concurrency = MaxWorkers
  /\ MaxWorkers > 1
  /\ \A w \in Workers : worker_pc[w] = "get"
  /\ executing = MaxWorkers
  /\ rx_guard = 0

\* the sum of the counts of the kinds in S of the Aggregator
RECURSIVE CountSumOf(_)
CountSumOf(S) ==
  IF S = {} THEN 0
  ELSE LET k == CHOOSE x \in S : TRUE
       IN aggregator[k].n + CountSumOf(S \ {k})

CountSum == CountSumOf(DOMAIN aggregator)

\* the records of kind k in the record list
ListedOf(k) == {i \in 1..Len(ops) : ops[i].op_type = k}

\* C40: in every state the counts of all kinds in the Aggregator add up to
\* the length of the record list or to one less, and to the length itself
\* whenever get_operations() is let through the lock; once close() has
\* returned the two are equal and the count of every kind is the number of
\* listed records of that kind.
C40_ListAndAggregateAgree ==
  /\ CountSum <= Len(ops)
  /\ CountSum >= Len(ops) - 1
  /\ GetOperationsEnabled => CountSum = Len(GetOperations)
  /\ collector_closed =>
       /\ CountSum = Len(ops)
       /\ \A k \in Kinds : EntryOf(aggregator, k).n = Cardinality(ListedOf(k))

\* the consumer has pushed its second record and not yet inserted it: the
\* Aggregator, which display_aggregated() can read now, is one record behind
C40_Witness ==
  /\ collector_task = "insert"
  /\ Len(ops) = 2
  /\ CountSum = 1

====
